---- MODULE Spec2Model ----
(***************************************************************************)
(* Stellar-Save: the ROSCA contract's group lifecycle and contribution     *)
(* state machine over the ledger's persistent key-value store.             *)
(*                                                                         *)
(* Every contract invocation is one transaction of the hosting ledger: it  *)
(* runs to completion and either commits or aborts as a whole, so each     *)
(* entry point is one action.  An invocation that returns an error or      *)
(* traps commits nothing: it leaves every variable as it was.  `last`      *)
(* holds the most recent committed invocation, what it returned and which  *)
(* events it published.                                                    *)
(***************************************************************************)
EXTENDS Integers, Sequences, FiniteSets, TLC

(***************************************************************************)
(* Bounds of the model.                                                    *)
(***************************************************************************)
\* The ledger closes at most MaxSeq times (sequence numbers 0..MaxSeq).
MaxSeq == 1
\* At most MaxGroups Group records are held by the store at a time.
MaxGroups == 1
\* create_group succeeds at most MaxCreates times.
MaxCreates == 2
\* The largest max_members a caller passes to create_group.
MaxMembersArg == 2

Addresses == {"a1", "a2", "a3"}
\* admin addresses passed to create_group
Admins == {"a1"}
\* contribution_amount: i128, so zero and negative values can be passed
AmountArgs == {-1, 0, 2}
\* max_members: u32
MaxMembersArgs == 0 .. MaxMembersArg
\* cycle_duration: u64 seconds
CycleDurationArgs == {2}
\* group ids a caller can name: the ids create_group can return
GroupIdArgs == 0 .. MaxSeq

VARIABLES storage, ledger, last, cycle_complete_log, created, ui

vars == <<storage, ledger, last, cycle_complete_log, created, ui>>

(***************************************************************************)
(* The persistent store: env.storage().persistent() with has / get / set.  *)
(***************************************************************************)
EmptyStorage == [k \in {} |-> 0]

has(st, key) == key \in DOMAIN st

get_or(st, key, default) == IF key \in DOMAIN st THEN st[key] ELSE default

set(st, key, value) == [k \in (DOMAIN st) \cup {key} |-> IF k = key THEN value ELSE st[k]]

(***************************************************************************)
(* StorageKeyBuilder: one constructor per logical domain, each embedding   *)
(* its domain discriminant.                                                *)
(***************************************************************************)
member_profile(group_id, address) == <<"MemberProfile", group_id, address>>

group_data(group_id) == <<"GroupData", group_id>>

group_status(group_id) == <<"GroupStatus", group_id>>

contribution_individual(group_id, cycle, address) == <<"ContributionIndividual", group_id, cycle, address>>

contribution_cycle_total(group_id, cycle) == <<"ContributionCycleTotal", group_id, cycle>>

\* Variant: the cycle count is keyed with the discriminant of the cycle total.
contribution_cycle_count_as_total(group_id, cycle) == <<"ContributionCycleTotal", group_id, cycle>>

contribution_cycle_count(group_id, cycle) == <<"ContributionCycleCount", group_id, cycle>>

(***************************************************************************)
(* Entities.                                                               *)
(***************************************************************************)
Statuses == {"Forming", "Active", "Completed", "Cancelled"}

\* The variant a missing status record is read as.  The group module names
\* it Pending; it is the not-yet-activated status, Forming.
DefaultStatus == "Forming"

\* started_at before activation
NotStarted == 0

Group(admin, contribution_amount, cycle_duration, max_members) ==
    [admin |-> admin,
     contribution_amount |-> contribution_amount,
     cycle_duration |-> cycle_duration,
     max_members |-> max_members,
     member_count |-> 0,
     current_cycle |-> 0,
     started_at |-> NotStarted]

ContributionRecord(contributor, group_id, cycle, amount, timestamp) ==
    [contributor |-> contributor,
     group_id |-> group_id,
     cycle |-> cycle,
     amount |-> amount,
     contributed_at |-> timestamp]

(***************************************************************************)
(* Status policy.                                                          *)
(***************************************************************************)
accepts_contributions(status) == status = "Active"

allows_activation(status) == status = "Forming"

(***************************************************************************)
(* Events.                                                                 *)
(***************************************************************************)
ContributionMade(group_id, contributor, amount, cycle, cycle_total, timestamp) ==
    [type |-> "ContributionMade",
     group_id |-> group_id,
     contributor |-> contributor,
     amount |-> amount,
     cycle |-> cycle,
     cycle_total |-> cycle_total,
     contributed_at |-> timestamp]

CycleComplete(group_id, cycle) ==
    [type |-> "cycle_complete", group_id |-> group_id, cycle |-> cycle]

(***************************************************************************)
(* The outcome of one invocation: the result it returns (Ok or the error), *)
(* the value returned with Ok, the store it leaves and the events it       *)
(* publishes.                                                              *)
(***************************************************************************)
\* the unit value (), and the value of a call that returned none
NoValue == -1

Ok(value, st, events) == [result |-> "Ok", value |-> value, storage |-> st, events |-> events]

\* `return Err(error)`: nothing was written before it
Err(error, st) == [result |-> error, value |-> NoValue, storage |-> st, events |-> <<>>]

\* A trap (failed require_auth, failed token transfer): the host aborts the
\* transaction and discards whatever it wrote.
Aborted(why, st) == [result |-> why, value |-> NoValue, storage |-> st, events |-> <<>>]

\* The external token transfer of step 5 either moves the funds or fails.
TransferOutcomes == {"transferred", "failed"}

(***************************************************************************)
(* contribute(env, group_id, contributor)                                  *)
(***************************************************************************)
\* 1. the caller has a member profile for the group
is_member(st, group_id, contributor) == has(st, member_profile(group_id, contributor))

\* 2. the stored status, Pending (Forming) when no status record is stored
load_status(st, group_id) == get_or(st, group_status(group_id), DefaultStatus)

\* Variant: the duplicate check never finds a record.
already_contributed_never(st, group_id, cycle, contributor) == FALSE

\* 4. a contribution record exists for (group, cycle, contributor)
already_contributed(st, group_id, cycle, contributor) ==
    has(st, contribution_individual(group_id, cycle, contributor))

\* Variant: the status is not checked.
validate_without_status(st, group_id, contributor) ==
    IF ~is_member(st, group_id, contributor) THEN "NotMember"
    ELSE IF ~has(st, group_data(group_id)) THEN "GroupNotFound"
    ELSE IF st[group_data(group_id)].contribution_amount <= 0 THEN "InvalidAmount"
    ELSE IF already_contributed(st, group_id, st[group_data(group_id)].current_cycle, contributor)
         THEN "AlreadyContributed"
    ELSE "Ok"

\* Variant: the group is loaded before the membership check.
validate_group_first(st, group_id, contributor) ==
    IF ~has(st, group_data(group_id)) THEN "GroupNotFound"
    ELSE IF ~is_member(st, group_id, contributor) THEN "NotMember"
    ELSE IF ~accepts_contributions(load_status(st, group_id)) THEN "InvalidState"
    ELSE IF st[group_data(group_id)].contribution_amount <= 0 THEN "InvalidAmount"
    ELSE IF already_contributed(st, group_id, st[group_data(group_id)].current_cycle, contributor)
         THEN "AlreadyContributed"
    ELSE "Ok"

\* Steps 1 to 4 in the order of the code: the first failing check decides.
validate(st, group_id, contributor) ==
    IF ~is_member(st, group_id, contributor) THEN "NotMember"
    ELSE IF ~has(st, group_data(group_id)) THEN "GroupNotFound"
    ELSE IF ~accepts_contributions(load_status(st, group_id)) THEN "InvalidState"
    ELSE IF st[group_data(group_id)].contribution_amount <= 0 THEN "InvalidAmount"
    ELSE IF already_contributed(st, group_id, st[group_data(group_id)].current_cycle, contributor)
         THEN "AlreadyContributed"
    ELSE "Ok"

\* Variant: the cycle count is not written back.
record_contribution_without_count(st, group_id, cycle, contributor, amount, timestamp) ==
    LET contrib_key == contribution_individual(group_id, cycle, contributor)
        st1 == set(st, contrib_key, ContributionRecord(contributor, group_id, cycle, amount, timestamp))
        total_key == contribution_cycle_total(group_id, cycle)
        current_total == get_or(st1, total_key, 0)
    IN  set(st1, total_key, current_total + amount)

\* 6. the record, then the cycle total and the cycle count, read with
\* default 0 and written back
record_contribution(st, group_id, cycle, contributor, amount, timestamp) ==
    LET contrib_key == contribution_individual(group_id, cycle, contributor)
        st1 == set(st, contrib_key, ContributionRecord(contributor, group_id, cycle, amount, timestamp))
        total_key == contribution_cycle_total(group_id, cycle)
        current_total == get_or(st1, total_key, 0)
        st2 == set(st1, total_key, current_total + amount)
        count_key == contribution_cycle_count(group_id, cycle)
        current_count == get_or(st2, count_key, 0)
    IN  set(st2, count_key, current_count + 1)

\* Variant: the cycle never counts as complete.
is_cycle_complete_never(new_count, member_count) == FALSE

\* Variant: the cycle counts as complete from the first contribution.
is_cycle_complete_from_first(new_count, member_count) == new_count >= 1

\* 8. the cycle is complete when the new count equals the member count
is_cycle_complete(new_count, member_count) == new_count = member_count

\* Variant: the contribution that completes the cycle also advances it.
accept_advances_when_complete(st, timestamp, group_id, contributor) ==
    LET group == st[group_data(group_id)]
        amount == group.contribution_amount
        cycle == group.current_cycle
        current_total == get_or(st, contribution_cycle_total(group_id, cycle), 0)
        current_count == get_or(st, contribution_cycle_count(group_id, cycle), 0)
        made == ContributionMade(group_id, contributor, amount, cycle, current_total + amount, timestamp)
        recorded == record_contribution(st, group_id, cycle, contributor, amount, timestamp)
    IN  IF is_cycle_complete(current_count + 1, group.member_count)
        THEN Ok(NoValue,
                set(recorded, group_data(group_id), [group EXCEPT !.current_cycle = cycle + 1]),
                <<made, CycleComplete(group_id, cycle)>>)
        ELSE Ok(NoValue, recorded, <<made>>)

\* Variant: the completion is published before the contribution.
accept_complete_first(st, timestamp, group_id, contributor) ==
    LET group == st[group_data(group_id)]
        amount == group.contribution_amount
        cycle == group.current_cycle
        current_total == get_or(st, contribution_cycle_total(group_id, cycle), 0)
        current_count == get_or(st, contribution_cycle_count(group_id, cycle), 0)
        made == ContributionMade(group_id, contributor, amount, cycle, current_total + amount, timestamp)
    IN  Ok(NoValue,
           record_contribution(st, group_id, cycle, contributor, amount, timestamp),
           IF is_cycle_complete(current_count + 1, group.member_count)
           THEN <<CycleComplete(group_id, cycle), made>>
           ELSE <<made>>)

\* Steps 6 to 8 of a contribution that passed every check.
accept(st, timestamp, group_id, contributor) ==
    LET group == st[group_data(group_id)]
        amount == group.contribution_amount
        cycle == group.current_cycle
        current_total == get_or(st, contribution_cycle_total(group_id, cycle), 0)
        current_count == get_or(st, contribution_cycle_count(group_id, cycle), 0)
        made == ContributionMade(group_id, contributor, amount, cycle, current_total + amount, timestamp)
    IN  Ok(NoValue,
           record_contribution(st, group_id, cycle, contributor, amount, timestamp),
           IF is_cycle_complete(current_count + 1, group.member_count)
           THEN <<made, CycleComplete(group_id, cycle)>>
           ELSE <<made>>)

\* Variant: the record is written before the duplicate check returns.
contribute_record_before_check(st, timestamp, group_id, contributor, transfer) ==
    IF validate(st, group_id, contributor) = "AlreadyContributed"
    THEN [Err("AlreadyContributed", st) EXCEPT
             !.storage = set(st,
                 contribution_individual(group_id, st[group_data(group_id)].current_cycle, contributor),
                 ContributionRecord(contributor, group_id, st[group_data(group_id)].current_cycle,
                                    st[group_data(group_id)].contribution_amount, timestamp))]
    ELSE IF validate(st, group_id, contributor) # "Ok"
         THEN Err(validate(st, group_id, contributor), st)
    ELSE IF transfer = "failed" THEN Aborted("TransferFailed", st)
    ELSE accept(st, timestamp, group_id, contributor)

\* Variant: the transfer is requested after the record is written, and its
\* failure is returned without undoing the write.
contribute_transfer_after_record(st, timestamp, group_id, contributor, transfer) ==
    IF validate(st, group_id, contributor) # "Ok"
    THEN Err(validate(st, group_id, contributor), st)
    ELSE IF transfer = "failed"
         THEN [Aborted("TransferFailed", st) EXCEPT
                  !.storage = set(st,
                      contribution_individual(group_id, st[group_data(group_id)].current_cycle, contributor),
                      ContributionRecord(contributor, group_id, st[group_data(group_id)].current_cycle,
                                         st[group_data(group_id)].contribution_amount, timestamp))]
    ELSE accept(st, timestamp, group_id, contributor)

\* Variant: a contribution after the deadline of the cycle is refused.
contribute_enforces_deadline(st, timestamp, group_id, contributor, transfer) ==
    IF validate(st, group_id, contributor) # "Ok"
         THEN Err(validate(st, group_id, contributor), st)
    ELSE IF /\ st[group_data(group_id)].started_at # NotStarted
            /\ timestamp > st[group_data(group_id)].started_at
                    + st[group_data(group_id)].cycle_duration
                        * (st[group_data(group_id)].current_cycle + 1)
         THEN Err("InvalidState", st)
    ELSE IF transfer = "failed" THEN Aborted("TransferFailed", st)
    ELSE accept(st, timestamp, group_id, contributor)

contribute(st, timestamp, group_id, contributor, transfer) ==
    IF validate(st, group_id, contributor) # "Ok"
         THEN Err(validate(st, group_id, contributor), st)
    ELSE IF transfer = "failed" THEN Aborted("TransferFailed", st)
    ELSE accept(st, timestamp, group_id, contributor)

(***************************************************************************)
(* Group lifecycle.                                                        *)
(***************************************************************************)
\* The id of a new group is taken from the ledger sequence.
new_group_id(ldg) == ldg.sequence

\* Variant: the new group is stored as Active.
create_group_active(st, ldg, admin, contribution_amount, cycle_duration, max_members) ==
    IF contribution_amount <= 0 THEN Err("InvalidAmount", st)
    ELSE IF max_members < 1 THEN Err("InvalidConfig", st)
    ELSE LET group_id == new_group_id(ldg)
             st1 == set(st, group_data(group_id),
                        Group(admin, contribution_amount, cycle_duration, max_members))
         IN  Ok(group_id, set(st1, group_status(group_id), "Active"), <<>>)

\* Variant: the Group record is written before max_members is validated.
create_group_writes_first(st, ldg, admin, contribution_amount, cycle_duration, max_members) ==
    IF contribution_amount <= 0 THEN Err("InvalidAmount", st)
    ELSE LET group_id == new_group_id(ldg)
             st1 == set(st, group_data(group_id),
                        Group(admin, contribution_amount, cycle_duration, max_members))
         IN  IF max_members < 1 THEN [Err("InvalidConfig", st) EXCEPT !.storage = st1]
             ELSE Ok(group_id, set(st1, group_status(group_id), "Forming"), <<>>)

create_group(st, ldg, admin, contribution_amount, cycle_duration, max_members) ==
    IF contribution_amount <= 0 THEN Err("InvalidAmount", st)
    ELSE IF max_members < 1 THEN Err("InvalidConfig", st)
    ELSE LET group_id == new_group_id(ldg)
             st1 == set(st, group_data(group_id),
                        Group(admin, contribution_amount, cycle_duration, max_members))
         IN  Ok(group_id, set(st1, group_status(group_id), "Forming"), <<>>)

\* Variant: the admin's authorization is not required.
activate_group_without_auth(st, timestamp, group_id, signer) ==
    IF ~has(st, group_data(group_id)) THEN Err("GroupNotFound", st)
    ELSE IF ~allows_activation(load_status(st, group_id)) THEN Err("InvalidState", st)
    ELSE LET group == st[group_data(group_id)]
             st1 == set(st, group_data(group_id), [group EXCEPT !.started_at = timestamp])
         IN  Ok(NoValue, set(st1, group_status(group_id), "Active"), <<>>)

\* Variant: activation does not look at the status.
activate_group_any_status(st, timestamp, group_id, signer) ==
    IF ~has(st, group_data(group_id)) THEN Err("GroupNotFound", st)
    ELSE IF signer # st[group_data(group_id)].admin THEN Aborted("AuthFailed", st)
    ELSE LET group == st[group_data(group_id)]
             st1 == set(st, group_data(group_id), [group EXCEPT !.started_at = timestamp])
         IN  Ok(NoValue, set(st1, group_status(group_id), "Active"), <<>>)

\* Variant: the start is stored as a value that is never the unset one.
activate_group_never_unset(st, timestamp, group_id, signer) ==
    IF ~has(st, group_data(group_id)) THEN Err("GroupNotFound", st)
    ELSE IF signer # st[group_data(group_id)].admin THEN Aborted("AuthFailed", st)
    ELSE IF ~allows_activation(load_status(st, group_id)) THEN Err("InvalidState", st)
    ELSE LET group == st[group_data(group_id)]
             st1 == set(st, group_data(group_id),
                        [group EXCEPT !.started_at = IF timestamp = NotStarted
                                                     THEN 1 ELSE timestamp])
         IN  Ok(NoValue, set(st1, group_status(group_id), "Active"), <<>>)

activate_group(st, timestamp, group_id, signer) ==
    IF ~has(st, group_data(group_id)) THEN Err("GroupNotFound", st)
    ELSE IF signer # st[group_data(group_id)].admin THEN Aborted("AuthFailed", st)
    ELSE IF ~allows_activation(load_status(st, group_id)) THEN Err("InvalidState", st)
    ELSE LET group == st[group_data(group_id)]
             st1 == set(st, group_data(group_id), [group EXCEPT !.started_at = timestamp])
         IN  Ok(NoValue, set(st1, group_status(group_id), "Active"), <<>>)

\* The total number of cycles is the number of members.
total_cycles(group) == group.member_count

\* Variant: the cycle is incremented whatever the number of cycles.
advance_cycle_always_increments(st, group_id) ==
    IF ~has(st, group_data(group_id)) THEN Err("GroupNotFound", st)
    ELSE LET group == st[group_data(group_id)]
         IN  Ok(NoValue,
                set(st, group_data(group_id),
                    [group EXCEPT !.current_cycle = group.current_cycle + 1]),
                <<>>)

\* Variant: the cycle is left only when every member has contributed in it.
advance_cycle_once_per_cycle(st, group_id) ==
    IF ~has(st, group_data(group_id)) THEN Err("GroupNotFound", st)
    ELSE LET group == st[group_data(group_id)]
         IN  IF get_or(st, contribution_cycle_count(group_id, group.current_cycle), 0)
                    # group.member_count
             THEN Ok(NoValue, st, <<>>)
             ELSE IF group.current_cycle + 1 > total_cycles(group)
             THEN Ok(NoValue, set(st, group_status(group_id), "Completed"), <<>>)
             ELSE Ok(NoValue,
                     set(st, group_data(group_id),
                         [group EXCEPT !.current_cycle = group.current_cycle + 1]),
                     <<>>)

\* Variant: leaving a cycle clears its aggregates.
advance_cycle_clears_aggregates(st, group_id) ==
    IF ~has(st, group_data(group_id)) THEN Err("GroupNotFound", st)
    ELSE LET group == st[group_data(group_id)]
         IN  IF group.current_cycle + 1 > total_cycles(group)
             THEN Ok(NoValue, set(st, group_status(group_id), "Completed"), <<>>)
             ELSE Ok(NoValue,
                     set(set(set(st, contribution_cycle_total(group_id, group.current_cycle), 0),
                             contribution_cycle_count(group_id, group.current_cycle), 0),
                         group_data(group_id),
                         [group EXCEPT !.current_cycle = group.current_cycle + 1]),
                     <<>>)

advance_cycle(st, group_id) ==
    IF ~has(st, group_data(group_id)) THEN Err("GroupNotFound", st)
    ELSE LET group == st[group_data(group_id)]
         IN  IF group.current_cycle + 1 > total_cycles(group)
             THEN Ok(NoValue, set(st, group_status(group_id), "Completed"), <<>>)
             ELSE Ok(NoValue,
                     set(st, group_data(group_id),
                         [group EXCEPT !.current_cycle = group.current_cycle + 1]),
                     <<>>)

\* Joining: open while the group is forming, to an address that is not yet a
\* member, as long as the group is not full.
can_join(st, group_id, address) ==
    /\ has(st, group_data(group_id))
    /\ ~is_member(st, group_id, address)
    /\ st[group_data(group_id)].member_count < st[group_data(group_id)].max_members
    /\ load_status(st, group_id) = "Forming"

add_member(st, group_id, address) ==
    LET group == st[group_data(group_id)]
        st1 == set(st, member_profile(group_id, address), TRUE)
    IN  Ok(NoValue,
           set(st1, group_data(group_id), [group EXCEPT !.member_count = group.member_count + 1]),
           <<>>)

(***************************************************************************)
(* The state machine.                                                      *)
(***************************************************************************)
NoCall == [op |-> "none", group_id |-> NoValue, caller |-> "", amount |-> 0,
           max_members |-> 0, result |-> "Ok", value |-> NoValue, events |-> <<>>]

\* No frontend component is mounted: `ui` holds the state of a component of
\* the web frontend, and the contract's operations never touch it.
NoUi == [component |-> "none"]

Call(op, group_id, caller, amount, max_members, out) ==
    [op |-> op, group_id |-> group_id, caller |-> caller, amount |-> amount,
     max_members |-> max_members, result |-> out.result, value |-> out.value,
     events |-> out.events]

\* The groups the store holds a Group record for.
StoredGroups(st) == {g \in GroupIdArgs : has(st, group_data(g))}

\* Every cycle_complete event of `events` is counted in the log.
Logged(log, events) ==
    LET completes == {<<events[i].group_id, events[i].cycle>> :
                         i \in {j \in DOMAIN events : events[j].type = "cycle_complete"}}
    IN  [k \in (DOMAIN log) \cup completes |->
            (IF k \in DOMAIN log THEN log[k] ELSE 0) + (IF k \in completes THEN 1 ELSE 0)]

\* The transaction ends: the store and the event log take the outcome.  The
\* outcome of an error or a trap holds the store as it was and no event.
Commit(out) ==
    /\ storage' = out.storage
    /\ cycle_complete_log' = Logged(cycle_complete_log, out.events)
    /\ UNCHANGED <<ledger, ui>>

Init ==
    /\ storage = EmptyStorage
    /\ ledger = [sequence |-> 0, timestamp |-> 0]
    /\ last = NoCall
    /\ cycle_complete_log = EmptyStorage
    /\ created = 0
    /\ ui = NoUi

CloseLedger ==
    /\ ledger.sequence < MaxSeq
    /\ ledger' = [sequence |-> ledger.sequence + 1, timestamp |-> ledger.timestamp + 1]
    /\ last' = NoCall
    /\ UNCHANGED <<storage, cycle_complete_log, created, ui>>

CreateGroup ==
    \E admin \in Admins, amount \in AmountArgs, duration \in CycleDurationArgs,
       max_members \in MaxMembersArgs :
        LET out == create_group(storage, ledger, admin, amount, duration, max_members)
        IN  /\ created < MaxCreates
            /\ \/ has(storage, group_data(new_group_id(ledger)))
               \/ Cardinality(StoredGroups(storage)) < MaxGroups
            /\ Commit(out)
            /\ last' = IF out.result = "Ok"
                       THEN Call("create_group", out.value, admin, amount, max_members, out)
                       ELSE last
            /\ created' = IF out.result = "Ok" THEN created + 1 ELSE created

ActivateGroup ==
    \E group_id \in GroupIdArgs, signer \in Addresses :
        LET out == activate_group(storage, ledger.timestamp, group_id, signer)
        IN  /\ Commit(out)
            /\ last' = IF out.result = "Ok"
                       THEN Call("activate_group", group_id, signer, 0, 0, out)
                       ELSE last
            /\ UNCHANGED created

AdvanceCycle ==
    \E group_id \in GroupIdArgs :
        LET out == advance_cycle(storage, group_id)
        IN  /\ Commit(out)
            /\ last' = IF out.result = "Ok"
                       THEN Call("advance_cycle", group_id, "", 0, 0, out)
                       ELSE last
            /\ UNCHANGED created

AddMember ==
    \E group_id \in GroupIdArgs, address \in Addresses :
        /\ can_join(storage, group_id, address)
        /\ Commit(add_member(storage, group_id, address))
        /\ last' = Call("add_member", group_id, address, 0, 0, add_member(storage, group_id, address))
        /\ UNCHANGED created

Contribute ==
    \E group_id \in GroupIdArgs, contributor \in Addresses, transfer \in TransferOutcomes :
        LET out == contribute(storage, ledger.timestamp, group_id, contributor, transfer)
        IN  /\ Commit(out)
            /\ last' = IF out.result = "Ok"
                       THEN Call("contribute", group_id, contributor, 0, 0, out)
                       ELSE last
            /\ UNCHANGED created

Next ==
    \/ CloseLedger
    \/ CreateGroup
    \/ ActivateGroup
    \/ AdvanceCycle
    \/ AddMember
    \/ Contribute

Spec == Init /\ [][Next]_vars

(***************************************************************************)
(* What the store holds for one cycle of one group.                        *)
(***************************************************************************)
ContributionKeys(st) == {k \in DOMAIN st : k[1] = "ContributionIndividual"}

\* the <<group_id, cycle>> pairs the store holds a record or an aggregate for
StoredCycles(st) ==
    {<<k[2], k[3]>> : k \in {x \in DOMAIN st :
        x[1] \in {"ContributionIndividual", "ContributionCycleTotal", "ContributionCycleCount"}}}

Contributors(st, group_id, cycle) ==
    {a \in Addresses : has(st, contribution_individual(group_id, cycle, a))}

RECURSIVE SumOfAmounts(_, _, _, _)
SumOfAmounts(st, group_id, cycle, contributors) ==
    IF contributors = {} THEN 0
    ELSE LET a == CHOOSE x \in contributors : TRUE
         IN  st[contribution_individual(group_id, cycle, a)].amount
             + SumOfAmounts(st, group_id, cycle, contributors \ {a})

CycleTotal(st, group_id, cycle) == get_or(st, contribution_cycle_total(group_id, cycle), 0)

CycleCount(st, group_id, cycle) == get_or(st, contribution_cycle_count(group_id, cycle), 0)

\* the store without the record at `key`
Without(st, key) == [k \in (DOMAIN st) \ {key} |-> st[k]]

ContributeErrors == {"NotMember", "GroupNotFound", "InvalidState", "InvalidAmount", "AlreadyContributed"}

(***************************************************************************)
(* C1.  A contribution record is written once.  The claim as stated: when  *)
(* a record exists for (group, current cycle, contributor), a contribute   *)
(* call by that contributor fails with AlreadyContributed and leaves the   *)
(* store as it is.  It is stated here for a group that was created once,   *)
(* so that a violation does not rest on a group id being issued twice.     *)
(***************************************************************************)
C1_Original ==
    \A g \in StoredGroups(storage), a \in Addresses, t \in TransferOutcomes :
        (created <= 1 /\ already_contributed(storage, g, storage[group_data(g)].current_cycle, a)) =>
            LET out == contribute(storage, ledger.timestamp, g, a, t)
            IN  /\ out.result = "AlreadyContributed"
                /\ out.storage = storage

\* The repeated call is rejected: with AlreadyContributed while the status is
\* Active, with InvalidState once it is not; it writes nothing and emits nothing.
C1_Rejected ==
    \A g \in StoredGroups(storage), a \in Addresses, t \in TransferOutcomes :
        already_contributed(storage, g, storage[group_data(g)].current_cycle, a) =>
            LET out == contribute(storage, ledger.timestamp, g, a, t)
            IN  /\ out.result = IF load_status(storage, g) = "Active"
                                THEN "AlreadyContributed" ELSE "InvalidState"
                /\ out.storage = storage
                /\ out.events = <<>>

\* No step removes or changes a stored contribution record.
C1_Immutable ==
    \A k \in ContributionKeys(storage) : k \in DOMAIN storage' /\ storage'[k] = storage[k]

\* C1 (amended): in every state a repeated contribute call for the current
\* cycle is rejected (AlreadyContributed while Active, InvalidState
\* otherwise) without changing the record, the cycle total or the cycle
\* count, and no step ever overwrites or removes a stored record.
C1_WrittenOnce == []C1_Rejected /\ [][C1_Immutable]_vars

\* a member has just contributed and the group is still Active: the repeated
\* call meets the duplicate check
C1_Witness ==
    /\ last.op = "contribute"
    /\ load_status(storage, last.group_id) = "Active"
    /\ contribute(storage, ledger.timestamp, last.group_id, last.caller, "transferred").result
           = "AlreadyContributed"

(***************************************************************************)
(* C2.  For every group and cycle the stored cycle count is the number of  *)
(* contribution records of that cycle and the stored cycle total is the    *)
(* sum of their amounts; N records of amount A give total N * A.           *)
(***************************************************************************)
C2_AggregatesMatchRecords ==
    \A gc \in StoredCycles(storage) :
        LET contributors == Contributors(storage, gc[1], gc[2])
        IN  /\ CycleCount(storage, gc[1], gc[2]) = Cardinality(contributors)
            /\ CycleTotal(storage, gc[1], gc[2])
                   = SumOfAmounts(storage, gc[1], gc[2], contributors)
            /\ \A amount \in AmountArgs :
                   (\A a \in contributors :
                        storage[contribution_individual(gc[1], gc[2], a)].amount = amount)
                   => CycleTotal(storage, gc[1], gc[2]) = Cardinality(contributors) * amount

\* two members have contributed the amount 2 in one cycle
C2_Witness ==
    \E gc \in StoredCycles(storage) :
        /\ Cardinality(Contributors(storage, gc[1], gc[2])) = 2
        /\ CycleTotal(storage, gc[1], gc[2]) = 4

(***************************************************************************)
(* C3.  In every state, for every group and cycle, the cycle count is at   *)
(* most the group's member_count.                                          *)
(***************************************************************************)
C3_CountWithinMembers ==
    \A gc \in StoredCycles(storage) :
        gc[1] \in StoredGroups(storage) =>
            CycleCount(storage, gc[1], gc[2]) <= storage[group_data(gc[1])].member_count

(***************************************************************************)
(* C4.  An accepted contribute call emits cycle_complete exactly when it   *)
(* brings the cycle count to member_count, a rejected call emits nothing,  *)
(* and cycle_complete is emitted at most once per (group, cycle).          *)
(***************************************************************************)
C4_EmittedIffComplete ==
    \A g \in GroupIdArgs, a \in Addresses, t \in TransferOutcomes :
        LET out == contribute(storage, ledger.timestamp, g, a, t)
        IN  IF out.result = "Ok"
            THEN LET group == storage[group_data(g)]
                 IN  (\E i \in DOMAIN out.events :
                          out.events[i] = CycleComplete(g, group.current_cycle))
                     <=> CycleCount(out.storage, g, group.current_cycle) = group.member_count
            ELSE out.events = <<>>

C4_EmittedOnce == \A k \in DOMAIN cycle_complete_log : cycle_complete_log[k] <= 1

C4_CycleCompleteOnce == C4_EmittedIffComplete /\ C4_EmittedOnce

(***************************************************************************)
(* C5.  A contribute call that returns one of its errors leaves the store  *)
(* as it was (no record, no aggregate, no Group or Status change) and      *)
(* emits no event.                                                         *)
(***************************************************************************)
C5_ErrorsWriteNothing ==
    \A g \in GroupIdArgs, a \in Addresses, t \in TransferOutcomes :
        LET out == contribute(storage, ledger.timestamp, g, a, t)
        IN  /\ out.result \in ContributeErrors \cup {"Ok", "TransferFailed"}
            /\ out.result \in ContributeErrors =>
                   /\ out.storage = storage
                   /\ out.events = <<>>

\* a call is rejected by the duplicate check after the ledger has moved on, so
\* a write made before the check would show in the record
C5_Witness ==
    \E k \in ContributionKeys(storage) :
        /\ storage[k].contributed_at < ledger.timestamp
        /\ contribute(storage, ledger.timestamp, k[2], k[4], "transferred").result
               = "AlreadyContributed"

C7_OnlyActiveAccepts ==
    \A g \in StoredGroups(storage), a \in Addresses, t \in TransferOutcomes :
        is_member(storage, g, a) =>
            /\ contribute(storage, ledger.timestamp, g, a, t).result = "Ok"
                   => /\ has(storage, group_status(g))
                      /\ storage[group_status(g)] = "Active"
            \* whatever status record the store holds for the group
            /\ \A status \in Statuses \ {"Active"} :
                   contribute(set(storage, group_status(g), status),
                              ledger.timestamp, g, a, t).result = "InvalidState"
            \* and when it holds none
            /\ contribute(Without(storage, group_status(g)),
                          ledger.timestamp, g, a, t).result = "InvalidState"

\* a member calls contribute on a group that is still Forming
C7_Witness ==
    \E g \in StoredGroups(storage), a \in Addresses :
        /\ is_member(storage, g, a)
        /\ storage[group_status(g)] = "Forming"
        /\ contribute(storage, ledger.timestamp, g, a, "transferred").result = "InvalidState"

(***************************************************************************)
(* C8.  An address without a member profile gets NotMember, whether or not *)
(* the group exists and whatever its status; GroupNotFound is returned     *)
(* only to an address with a member profile for a group id without a       *)
(* Group record.                                                           *)
(***************************************************************************)
C8_MembershipCheckedFirst ==
    \A g \in GroupIdArgs, a \in Addresses, t \in TransferOutcomes :
        /\ ~is_member(storage, g, a) =>
               contribute(storage, ledger.timestamp, g, a, t).result = "NotMember"
        /\ contribute(storage, ledger.timestamp, g, a, t).result = "GroupNotFound" =>
               is_member(storage, g, a) /\ ~has(storage, group_data(g))
        \* a store that holds the profile and no Group record
        /\ ~has(storage, group_data(g)) =>
               contribute(set(storage, member_profile(g, a), TRUE),
                          ledger.timestamp, g, a, t).result = "GroupNotFound"

\* a non-member calls for a group id that has no Group record, while another
\* group is Active
C8_Witness ==
    \E g \in GroupIdArgs, h \in StoredGroups(storage), a \in Addresses :
        /\ ~has(storage, group_data(g))
        /\ load_status(storage, h) = "Active"
        /\ ~is_member(storage, h, a)
        /\ contribute(storage, ledger.timestamp, g, a, "transferred").result = "NotMember"
        /\ contribute(storage, ledger.timestamp, h, a, "transferred").result = "NotMember"

(***************************************************************************)
(* C9.  create_group with contribution_amount > 0 and max_members >= 1     *)
(* succeeds, returns a group id and stores a Group with current_cycle 0    *)
(* and started_at unset and the status Forming; no contribution to the new *)
(* group is accepted before it is activated.                               *)
(***************************************************************************)
C9_CreatesForming ==
    \A admin \in Admins, amount \in AmountArgs, duration \in CycleDurationArgs,
       max_members \in MaxMembersArgs :
        (amount > 0 /\ max_members >= 1) =>
            LET out == create_group(storage, ledger, admin, amount, duration, max_members)
            IN  /\ out.result = "Ok"
                /\ out.value \in Nat
                /\ has(out.storage, group_data(out.value))
                /\ out.storage[group_data(out.value)].current_cycle = 0
                /\ out.storage[group_data(out.value)].started_at = NotStarted
                /\ out.storage[group_data(out.value)].contribution_amount = amount
                /\ out.storage[group_data(out.value)].max_members = max_members
                /\ has(out.storage, group_status(out.value))
                /\ out.storage[group_status(out.value)] = "Forming"
                /\ \A a \in Addresses, t \in TransferOutcomes :
                       contribute(out.storage, ledger.timestamp, out.value, a, t).result # "Ok"

\* a group has just been created and is stored as Forming
C9_Witness ==
    /\ last.op = "create_group"
    /\ last.result = "Ok"
    /\ storage[group_status(last.value)] = "Forming"
    /\ storage[group_data(last.value)].current_cycle = 0

(***************************************************************************)
(* C10.  create_group fails with InvalidAmount when contribution_amount    *)
(* <= 0 and with InvalidConfig when max_members < 1 (one of the two when   *)
(* both hold), and a failed create_group stores nothing.                   *)
(***************************************************************************)
C10_InvalidArgsRejected ==
    \A admin \in Admins, amount \in AmountArgs, duration \in CycleDurationArgs,
       max_members \in MaxMembersArgs :
        LET out == create_group(storage, ledger, admin, amount, duration, max_members)
        IN  /\ (amount <= 0 /\ max_members >= 1) => out.result = "InvalidAmount"
            /\ (amount > 0 /\ max_members < 1) => out.result = "InvalidConfig"
            /\ (amount <= 0 /\ max_members < 1) =>
                   out.result \in {"InvalidAmount", "InvalidConfig"}
            /\ out.result # "Ok" => out.storage = storage /\ out.events = <<>>

\* a create_group call with max_members 0 is rejected at a ledger sequence
\* no group has been created at
C10_Witness ==
    /\ StoredGroups(storage) # {}
    /\ ~has(storage, group_data(new_group_id(ledger)))
    /\ \E admin \in Admins, duration \in CycleDurationArgs :
           create_group(storage, ledger, admin, 2, duration, 0).result = "InvalidConfig"

(***************************************************************************)
(* C11.  A successful create_group returns an id no stored group has, and  *)
(* leaves the Group and Status records of every stored group as they are.  *)
(***************************************************************************)
C11_FreshIds ==
    \A admin \in Admins, amount \in AmountArgs, duration \in CycleDurationArgs,
       max_members \in MaxMembersArgs :
        LET out == create_group(storage, ledger, admin, amount, duration, max_members)
        IN  out.result = "Ok" =>
                /\ out.value \notin StoredGroups(storage)
                /\ \A g \in StoredGroups(storage) :
                       /\ out.storage[group_data(g)] = storage[group_data(g)]
                       /\ load_status(out.storage, g) = load_status(storage, g)

(***************************************************************************)
(* C12.  activate_group, authorized by the admin, succeeds on a Forming    *)
(* group, leaving it Active with started_at the current time, and fails    *)
(* with InvalidState on any other status, leaving the store as it is; no   *)
(* step changes a stored started_at except the activation of a Forming     *)
(* group, so started_at is written once and never reset.                   *)
(***************************************************************************)
C12_Activation ==
    \A g \in StoredGroups(storage) :
        LET out == activate_group(storage, ledger.timestamp, g, storage[group_data(g)].admin)
        IN  IF load_status(storage, g) = "Forming"
            THEN /\ out.result = "Ok"
                 /\ load_status(out.storage, g) = "Active"
                 /\ out.storage[group_data(g)].started_at = ledger.timestamp
            ELSE /\ out.result = "InvalidState"
                 /\ out.storage = storage

C12_SoleWriter ==
    \A g \in StoredGroups(storage) \cap StoredGroups(storage') :
        storage'[group_data(g)].started_at # storage[group_data(g)].started_at =>
            /\ last'.op = "activate_group"
            /\ load_status(storage, g) = "Forming"
            /\ load_status(storage', g) = "Active"
            /\ storage[group_data(g)].started_at = NotStarted
            /\ storage'[group_data(g)].started_at = ledger.timestamp

C12_StartedAtWrittenOnce == []C12_Activation /\ [][C12_SoleWriter]_vars

(***************************************************************************)
(* C13.  activate_group takes effect only when the admin recorded in the   *)
(* Group authorizes it: a call by any other signer leaves the store (the   *)
(* status and started_at with it) as it is, and a call for a group id      *)
(* without a Group record fails with GroupNotFound and stores nothing.     *)
(***************************************************************************)
C13_AdminAuthorizes ==
    \A g \in GroupIdArgs, signer \in Addresses :
        LET out == activate_group(storage, ledger.timestamp, g, signer)
        IN  /\ ~has(storage, group_data(g)) =>
                   /\ out.result = "GroupNotFound"
                   /\ out.storage = storage
            /\ (has(storage, group_data(g)) /\ signer # storage[group_data(g)].admin) =>
                   /\ out.result # "Ok"
                   /\ out.storage = storage
            /\ out.result = "Ok" => signer = storage[group_data(g)].admin

\* another address than the admin calls for a Forming group, which the admin
\* could activate, while another group id has no Group record
C13_Witness ==
    \E g \in StoredGroups(storage), signer \in Addresses, h \in GroupIdArgs :
        /\ load_status(storage, g) = "Forming"
        /\ signer # storage[group_data(g)].admin
        /\ activate_group(storage, ledger.timestamp, g, signer).result = "AuthFailed"
        /\ activate_group(storage, ledger.timestamp, g, storage[group_data(g)].admin).result = "Ok"
        /\ activate_group(storage, ledger.timestamp, h, signer).result = "GroupNotFound"

(***************************************************************************)
(* C14.  A group's status only moves forward: a step changes it only from  *)
(* Forming to Active or from Active to Completed or Cancelled, so it never *)
(* returns to Forming and never leaves Completed or Cancelled, and a       *)
(* Completed or Cancelled group accepts no contribution.                   *)
(***************************************************************************)
C14_Transitions ==
    \A g \in StoredGroups(storage) \cap StoredGroups(storage') :
        load_status(storage', g) # load_status(storage, g) =>
            <<load_status(storage, g), load_status(storage', g)>>
                \in {<<"Forming", "Active">>, <<"Active", "Completed">>, <<"Active", "Cancelled">>}

C14_Terminal ==
    \A g \in StoredGroups(storage) :
        load_status(storage, g) \in {"Completed", "Cancelled"} =>
            \A a \in Addresses, t \in TransferOutcomes :
                contribute(storage, ledger.timestamp, g, a, t).result # "Ok"

C14_ForwardTransitions ==
    \A g \in StoredGroups(storage) \cap StoredGroups(storage') :
        load_status(storage', g) # load_status(storage, g) =>
            \/ /\ last'.op = "create_group"
               /\ created' = created + 1
               /\ last'.value = g
               /\ load_status(storage', g) = "Forming"
            \/ /\ last'.op = "activate_group"
               /\ <<load_status(storage, g), load_status(storage', g)>> = <<"Forming", "Active">>
            \/ /\ last'.op = "advance_cycle"
               /\ <<load_status(storage, g), load_status(storage', g)>>
                      \in {<<"Active", "Completed">>, <<"Forming", "Completed">>}

C15_StartsAtZero ==
    \A admin \in Admins, amount \in AmountArgs, duration \in CycleDurationArgs,
       max_members \in MaxMembersArgs :
        LET out == create_group(storage, ledger, admin, amount, duration, max_members)
        IN  out.result = "Ok" => out.storage[group_data(out.value)].current_cycle = 0

C15_Step ==
    \A g \in StoredGroups(storage) \cap StoredGroups(storage') :
        storage'[group_data(g)].current_cycle # storage[group_data(g)].current_cycle =>
            /\ last'.op = "advance_cycle"
            /\ last'.group_id = g
            /\ storage'[group_data(g)].current_cycle = storage[group_data(g)].current_cycle + 1

C15_CycleOnlyAdvances == []C15_StartsAtZero /\ [][C15_Step]_vars

(***************************************************************************)
(* C16.  advance_cycle increments current_cycle by one and leaves the      *)
(* status, unless current_cycle + 1 exceeds the number of cycles (the      *)
(* number of members): then it sets the status to Completed and leaves     *)
(* current_cycle.                                                          *)
(***************************************************************************)
C16_AdvanceOrComplete ==
    \A g \in StoredGroups(storage) :
        LET group == storage[group_data(g)]
            out == advance_cycle(storage, g)
        IN  /\ out.result = "Ok"
            /\ IF group.current_cycle + 1 > group.member_count
               THEN /\ load_status(out.storage, g) = "Completed"
                    /\ out.storage[group_data(g)] = group
               ELSE /\ out.storage[group_data(g)]
                           = [group EXCEPT !.current_cycle = group.current_cycle + 1]
                    /\ load_status(out.storage, g) = load_status(storage, g)

\* advance_cycle has completed an activated group with a member, after taking
\* it through its cycles
C16_Witness ==
    /\ last.op = "advance_cycle"
    /\ has(storage, group_data(last.group_id))
    /\ load_status(storage, last.group_id) = "Completed"
    /\ storage[group_data(last.group_id)].member_count >= 1
    /\ storage[group_data(last.group_id)].current_cycle
           = storage[group_data(last.group_id)].member_count
    /\ advance_cycle(storage, last.group_id).storage = storage

(***************************************************************************)
(* Queries and helpers.  They read and compute without writing; they are   *)
(* checked under QuerySpec, which starts from any of a set of stores and   *)
(* applies one query after another, `last` holding the query just made,    *)
(* its arguments and what it returned.                                     *)
(***************************************************************************)
\* u64::MAX, scaled down for the arithmetic on times
MaxU64 == 15
\* format_group_id is applied to every id up to MaxSmallId and to chosen
\* larger ones
MaxSmallId == 20

\* a helper returned `value`
Returned(value) == [result |-> "Ok", value |-> value]

\* a helper trapped: the invocation it runs in is aborted
Trapped(why) == [result |-> why, value |-> NoValue]

Query(op, args, out) == [op |-> op, args |-> args, result |-> out.result, value |-> out.value]

(***************************************************************************)
(* is_cycle_deadline_passed(group, current_time)                           *)
(***************************************************************************)
\* started_at + (cycle_duration * (current_cycle + 1))
cycle_deadline(group) == group.started_at + (group.cycle_duration * (group.current_cycle + 1))

\* Variant: the boundary instant counts as passed.
is_cycle_deadline_passed_inclusive(group, current_time, overflow_checks) ==
    IF group.started_at = NotStarted THEN Returned(FALSE)
    ELSE IF cycle_deadline(group) > MaxU64 /\ overflow_checks THEN Trapped("Overflow")
    ELSE Returned(current_time >= cycle_deadline(group) % (MaxU64 + 1))

\* The deadline is computed in u64.  When it exceeds u64::MAX the arithmetic
\* overflows: a build with overflow checks traps, a build without them goes
\* on with the wrapped value.  `overflow_checks` is the build's setting.
is_cycle_deadline_passed(group, current_time, overflow_checks) ==
    IF group.started_at = NotStarted THEN Returned(FALSE)
    ELSE IF cycle_deadline(group) > MaxU64 /\ overflow_checks THEN Trapped("Overflow")
    ELSE Returned(current_time > cycle_deadline(group) % (MaxU64 + 1))

(***************************************************************************)
(* is_group_active(env, group_id)                                          *)
(***************************************************************************)
\* Variant: the member count is not looked at.
is_group_active_ignores_members(st, group_id) ==
    IF ~has(st, group_data(group_id)) THEN Err("GroupNotFound", st)
    ELSE Ok(load_status(st, group_id) = "Active", st, <<>>)

is_group_active(st, group_id) ==
    IF ~has(st, group_data(group_id)) THEN Err("GroupNotFound", st)
    ELSE LET group == st[group_data(group_id)]
         IN  Ok(/\ load_status(st, group_id) = "Active"
                /\ group.member_count >= 1
                /\ group.member_count <= group.max_members,
                st, <<>>)

(***************************************************************************)
(* StorageKeyBuilder, applied to the arguments of a query: the builder's   *)
(* name, then the group id and, where the builder takes them, the cycle    *)
(* and the address.                                                        *)
(***************************************************************************)
KeyGroupIds == {1, 2}

KeyCycles == {1, 2}

StorageKeyArgs ==
    {<<"group_data", g>> : g \in KeyGroupIds}
    \cup {<<"group_status", g>> : g \in KeyGroupIds}
    \cup {<<"member_profile", g, a>> : g \in KeyGroupIds, a \in Addresses}
    \cup {<<"contribution_individual", g, c, a>> : g \in KeyGroupIds, c \in KeyCycles, a \in Addresses}
    \cup {<<"contribution_cycle_total", g, c>> : g \in KeyGroupIds, c \in KeyCycles}
    \cup {<<"contribution_cycle_count", g, c>> : g \in KeyGroupIds, c \in KeyCycles}

storage_key(args) ==
    CASE args[1] = "group_data" -> group_data(args[2])
      [] args[1] = "group_status" -> group_status(args[2])
      [] args[1] = "member_profile" -> member_profile(args[2], args[3])
      [] args[1] = "contribution_individual" -> contribution_individual(args[2], args[3], args[4])
      [] args[1] = "contribution_cycle_total" -> contribution_cycle_total(args[2], args[3])
      [] args[1] = "contribution_cycle_count" -> contribution_cycle_count(args[2], args[3])

(***************************************************************************)
(* format_group_id(env, group_id).  A u64 is held as three limbs in base   *)
(* 10^9, most significant first, so that every u64 up to u64::MAX can be   *)
(* written; the string is the sequence of its characters.                  *)
(***************************************************************************)
Limb == 10^9

u64(hi, mid, lo) == <<hi, mid, lo>>

U64_MAX == u64(18, 446744073, 709551615)

\* group_id / 10 and group_id % 10
div10(n) ==
    u64(n[1] \div 10,
        (n[1] % 10) * (Limb \div 10) + (n[2] \div 10),
        (n[2] % 10) * (Limb \div 10) + (n[3] \div 10))

mod10(n) == n[3] % 10

\* Variant: the digit loop alone, which yields no digit for zero.
RECURSIVE digits_without_zero(_)
digits_without_zero(n) ==
    IF n = u64(0, 0, 0) THEN <<>>
    ELSE Append(digits_without_zero(div10(n)), mod10(n))

\* the decimal digits of group_id, most significant first; zero is one digit
RECURSIVE digits(_)
digits(n) ==
    IF div10(n) = u64(0, 0, 0) THEN <<mod10(n)>>
    ELSE Append(digits(div10(n)), mod10(n))

\* the byte of a digit
digit_byte(d) == <<"0", "1", "2", "3", "4", "5", "6", "7", "8", "9">>[d + 1]

GROUP_PREFIX == <<"G", "R", "O", "U", "P", "-">>

format_group_id(group_id) ==
    GROUP_PREFIX \o [i \in 1 .. Len(digits(group_id)) |-> digit_byte(digits(group_id)[i])]

(***************************************************************************)
(* QuerySpec: the queries applied to stores and arguments drawn from       *)
(* bounded sets.  A query writes nothing and its result depends on nothing *)
(* but the store and its arguments, so a behaviour is a store followed by  *)
(* one query.                                                              *)
(***************************************************************************)
\* a store holding group 0 with the given status record (none when "absent"),
\* member count and max_members
QueryStore(status, member_count, max_members) ==
    LET group == [Group("a1", 2, 2, max_members) EXCEPT !.member_count = member_count]
        st1 == set(EmptyStorage, group_data(0), group)
    IN  IF status = "absent" THEN st1 ELSE set(st1, group_status(0), status)

QueryStores ==
    {EmptyStorage}
    \cup {QueryStore(status, member_count, max_members) :
              status \in Statuses \cup {"absent"},
              member_count \in 0 .. MaxMembersArg + 1,
              max_members \in 1 .. MaxMembersArg}

StartedAtArgs == {NotStarted, 1, 3}

DeadlineDurationArgs == {0, 2, 5, 8}

CurrentCycleArgs == 0 .. MaxMembersArg

DeadlineGroups ==
    {[Group("a1", 2, duration, 1) EXCEPT !.started_at = started_at, !.current_cycle = cycle] :
         started_at \in StartedAtArgs, duration \in DeadlineDurationArgs, cycle \in CurrentCycleArgs}

CurrentTimeArgs == 0 .. MaxU64

FormatIds ==
    {u64(0, 0, lo) : lo \in 0 .. MaxSmallId}
    \cup {u64(0, 0, 12345), u64(0, 0, Limb - 1), u64(0, 1, 0), u64(1, 0, 0),
          u64(18, 446744073, 709551614), U64_MAX}

QueryInit ==
    /\ storage \in QueryStores
    /\ ledger = [sequence |-> 0, timestamp |-> 0]
    /\ last = NoCall
    /\ cycle_complete_log = EmptyStorage
    /\ created = 0
    /\ ui = NoUi

IsCycleDeadlinePassed ==
    \E group \in DeadlineGroups, current_time \in CurrentTimeArgs, overflow_checks \in BOOLEAN :
        /\ last = NoCall
        /\ last' = Query("is_cycle_deadline_passed", <<group, current_time, overflow_checks>>,
                         is_cycle_deadline_passed(group, current_time, overflow_checks))
        /\ UNCHANGED <<storage, ledger, cycle_complete_log, created, ui>>

IsGroupActive ==
    \E group_id \in GroupIdArgs :
        LET out == is_group_active(storage, group_id)
        IN  /\ last = NoCall
            /\ storage' = out.storage
            /\ last' = Query("is_group_active", <<group_id>>, out)
            /\ UNCHANGED <<ledger, cycle_complete_log, created, ui>>

StorageKey ==
    \E args \in StorageKeyArgs :
        /\ last = NoCall
        /\ last' = Query("storage_key", args, Returned(storage_key(args)))
        /\ UNCHANGED <<storage, ledger, cycle_complete_log, created, ui>>

FormatGroupId ==
    \E group_id \in FormatIds :
        /\ last = NoCall
        /\ last' = Query("format_group_id", <<group_id>>, Returned(format_group_id(group_id)))
        /\ UNCHANGED <<storage, ledger, cycle_complete_log, created, ui>>

QueryNext ==
    \/ IsCycleDeadlinePassed
    \/ IsGroupActive
    \/ StorageKey
    \/ FormatGroupId

QuerySpec == QueryInit /\ [][QueryNext]_vars

C18_Result ==
    last.op = "is_group_active" =>
        LET g == last.args[1]
        IN  IF ~has(storage, group_data(g))
            THEN last.result = "GroupNotFound"
            ELSE LET group == storage[group_data(g)]
                     active == /\ has(storage, group_status(g))
                               /\ storage[group_status(g)] = "Active"
                 IN  /\ last.result = "Ok"
                     /\ last.value = (/\ active
                                      /\ 1 <= group.member_count
                                      /\ group.member_count <= group.max_members)
                     /\ ~active => last.value = FALSE
                     /\ group.member_count = 0 => last.value = FALSE
                     /\ group.member_count > group.max_members => last.value = FALSE

C18_ReadOnly == last'.op = "is_group_active" => storage' = storage

C18_ActiveIff == []C18_Result /\ [][C18_ReadOnly]_vars

\* the query is made for an Active group with more members than max_members
C18_Witness ==
    /\ last.op = "is_group_active"
    /\ has(storage, group_data(last.args[1]))
    /\ load_status(storage, last.args[1]) = "Active"
    /\ storage[group_data(last.args[1])].member_count
           > storage[group_data(last.args[1])].max_members
    /\ last.result = "Ok"
    /\ last.value = FALSE

DigitBytes == {"0", "1", "2", "3", "4", "5", "6", "7", "8", "9"}

\* the digit a byte stands for
digit_value(byte) == CHOOSE d \in 0 .. 9 : digit_byte(d) = byte

\* n * 10 + d
times10_plus(n, d) ==
    u64(n[1] * 10 + (n[2] \div (Limb \div 10)),
        (n[2] % (Limb \div 10)) * 10 + (n[3] \div (Limb \div 10)),
        (n[3] % (Limb \div 10)) * 10 + d)

\* the number a sequence of digit bytes reads as in decimal
RECURSIVE decimal_value(_)
decimal_value(bytes) ==
    IF bytes = <<>> THEN u64(0, 0, 0)
    ELSE times10_plus(decimal_value(SubSeq(bytes, 1, Len(bytes) - 1)),
                      digit_value(bytes[Len(bytes)]))

C20_FormatsDecimal ==
    last.op = "format_group_id" =>
        LET id == last.args[1]
            s == last.value
            tail == SubSeq(s, Len(GROUP_PREFIX) + 1, Len(s))
        IN  /\ Len(s) > Len(GROUP_PREFIX)
            /\ SubSeq(s, 1, Len(GROUP_PREFIX)) = <<"G", "R", "O", "U", "P", "-">>
            /\ \A i \in DOMAIN tail : tail[i] \in DigitBytes
            /\ Len(tail) = 1 \/ tail[1] # "0"
            /\ decimal_value(tail) = id
            /\ id = u64(0, 0, 0) => s = <<"G", "R", "O", "U", "P", "-", "0">>
            /\ id = u64(18, 446744073, 709551615) =>
                   s = <<"G", "R", "O", "U", "P", "-",
                         "1", "8", "4", "4", "6", "7", "4", "4", "0", "7",
                         "3", "7", "0", "9", "5", "5", "1", "6", "1", "5">>
            /\ \A other \in FormatIds : other # id => format_group_id(other) # s

\* u64::MAX has been formatted: twenty digits after the prefix
C20_Witness ==
    /\ last.op = "format_group_id"
    /\ last.args[1] = U64_MAX
    /\ Len(last.value) = Len(GROUP_PREFIX) + 20

(***************************************************************************)
(* The web frontend.  Each component is a specification of its own: `ui`   *)
(* holds the component's props, its React state and what it has called;    *)
(* the contract's variables stay as deployed.  Text is a sequence of       *)
(* characters.                                                             *)
(***************************************************************************)
Contract == <<storage, ledger, last, cycle_complete_log, created>>

ContractInit ==
    /\ storage = EmptyStorage
    /\ ledger = [sequence |-> 0, timestamp |-> 0]
    /\ last = NoCall
    /\ cycle_complete_log = EmptyStorage
    /\ created = 0

(***************************************************************************)
(* SearchBar (src/unnamed/part_003).                                       *)
(***************************************************************************)
\* Bound: the times the parent passes a new onSearch function.
MaxRenders == 2

\* What the user can make the input hold.
SearchInputs == {<<>>, <<" ">>, <<"a">>, <<"B">>}

\* The debounceMs prop, in ticks of the clock.
DebounceMsArgs == {1, 2}

\* debounceTimerRef.current: no timer runs.
NoTimer == [pending |-> FALSE, remaining |-> 0, value |-> <<>>, onSearch |-> 0]

\* setTimeout(() => { onSearch(value); }, debounceMs): the callback closes
\* over the value and the onSearch of the render that started it.
\* Mutant of setTimeout: the callback is due at once.
setTimeout_at_once(value, onSearch, debounceMs) ==
    [pending |-> TRUE, remaining |-> 0, value |-> value, onSearch |-> onSearch]

setTimeout(value, onSearch, debounceMs) ==
    [pending |-> TRUE, remaining |-> debounceMs, value |-> value, onSearch |-> onSearch]

\* The effect on [value, debounceMs, onSearch]: the timer that runs is
\* cleared (by the cleanup of the effect before it and by the effect) and
\* a new one is started.
debounce_effect(sb) ==
    [sb EXCEPT !.timer = setTimeout(sb.value, sb.onSearch, sb.debounceMs)]

\* setValue(v): React keeps the render, and so the effect, when the state
\* does not change.
setValue(sb, v) ==
    IF v = sb.value THEN sb ELSE debounce_effect([sb EXCEPT !.value = v])

\* The parent renders SearchBar with another onSearch function.
receive_onSearch(sb, onSearch) ==
    IF onSearch = sb.onSearch THEN sb ELSE debounce_effect([sb EXCEPT !.onSearch = onSearch])

\* The clock moves by one tick.
tick(sb) ==
    IF sb.timer.pending THEN [sb EXCEPT !.timer.remaining = @ - 1] ELSE sb

\* The timer callback has run.
fired(sb) == [sb EXCEPT !.timer = NoTimer]

\* No call of onSearch yet.
NoSearch == [value |-> <<>>, onSearch |-> -1]

\* The component after its first render and its effect.  Beside the
\* component, `ui` keeps the ticks since the value last changed (up to
\* debounceMs), the calls of onSearch since then and the last of them.
SearchBarMounted(defaultValue, debounceMs) ==
    debounce_effect([component |-> "SearchBar", value |-> defaultValue, onSearch |-> 0,
                     debounceMs |-> debounceMs, timer |-> NoTimer,
                     since_change |-> 0, calls |-> 0, called |-> NoSearch])

SearchBarInit ==
    /\ ContractInit
    /\ \E debounceMs \in DebounceMsArgs : ui = SearchBarMounted(<<>>, debounceMs)

\* The change of the value restarts the count of ticks and of calls.
Changed(sb, v) ==
    IF v = sb.value THEN sb ELSE [setValue(sb, v) EXCEPT !.since_change = 0, !.calls = 0]

HandleChange ==
    \E v \in SearchInputs :
        /\ v # ui.value
        /\ ui' = Changed(ui, v)
        /\ UNCHANGED Contract

\* The clear button is rendered when the input holds text (and not loading).
HandleClear ==
    /\ ui.value # <<>>
    /\ ui' = Changed(ui, <<>>)
    /\ UNCHANGED Contract

ParentRenders ==
    /\ ui.onSearch < MaxRenders
    /\ ui' = receive_onSearch(ui, ui.onSearch + 1)
    /\ UNCHANGED Contract

\* Time passes, unless a timer is due.
SearchTick ==
    /\ ~(ui.timer.pending /\ ui.timer.remaining = 0)
    /\ ui.timer.pending \/ ui.since_change < ui.debounceMs
    /\ ui' = [tick(ui) EXCEPT !.since_change = IF @ < ui.debounceMs THEN @ + 1 ELSE @]
    /\ UNCHANGED Contract

\* The timer is due: its callback calls onSearch(value).
TimerFires ==
    /\ ui.timer.pending
    /\ ui.timer.remaining = 0
    /\ ui' = [fired(ui) EXCEPT !.calls = @ + 1,
                               !.called = [value |-> ui.timer.value,
                                           onSearch |-> ui.timer.onSearch]]
    /\ UNCHANGED Contract

SearchBarNext ==
    \/ HandleChange
    \/ HandleClear
    \/ ParentRenders
    \/ SearchTick
    \/ TimerFires

SearchBarSpec == SearchBarInit /\ [][SearchBarNext]_vars

\* --- C21 ---------------------------------------------------------------
\* C21 (as stated): SearchBar calls onSearch only once debounceMs have
\* elapsed since the last change of the input value, with the value the
\* input holds then; changes less than debounceMs apart produce no call
\* while they continue, and exactly one call afterwards, with the last value.
C21_AfterDelay ==
    [][ui'.calls = ui.calls + 1 =>
          /\ ui.since_change >= ui.debounceMs
          /\ ui'.called.value = ui.value]_vars

C21_ExactlyOne ==
    ui.value # <<>> =>
        /\ ui.calls <= 1
        /\ ~ui.timer.pending => ui.calls = 1

C21_OncePerCallback ==
    [][ui'.calls = ui.calls + 1 /\ ui.calls > 0 =>
          ui'.called.onSearch # ui.called.onSearch]_vars

C21_Called ==
    /\ ~ui.timer.pending => ui.calls >= 1
    /\ ui.calls <= 1 + ui.onSearch

NoDescription == <<"undefined">>

Groups ==
    << [id |-> 1, name |-> <<"a">>, description |-> NoDescription, memberCount |-> 3, createdAt |-> 5],
       [id |-> 2, name |-> <<"B">>, description |-> NoDescription, memberCount |-> 1, createdAt |-> 4],
       [id |-> 3, name |-> <<"c">>, description |-> <<"a", "b">>, memberCount |-> 3, createdAt |-> 3],
       [id |-> 4, name |-> <<"b", "a">>, description |-> NoDescription, memberCount |-> 2, createdAt |-> 2],
       [id |-> 5, name |-> <<"A", "b">>, description |-> NoDescription, memberCount |-> 5, createdAt |-> 1] >>

\* The values of the groups prop: the five groups, the first two of them
\* after the list has shrunk, and no group.
GroupsArgs == {Groups, SubSeq(Groups, 1, 2), <<>>}

SortFields == {"name", "memberCount", "createdAt"}

\* pageSizeOptions (10, 25, 50 scaled).
PageSizeOptions == {2, 3}

\* String.prototype.toLowerCase
toLowerCase(s) ==
    [i \in 1 .. Len(s) |-> CASE s[i] = "A" -> "a" [] s[i] = "B" -> "b" [] OTHER -> s[i]]

\* !searchQuery.trim(): the query is empty or white space.
is_blank(s) == \A i \in 1 .. Len(s) : s[i] = " "

\* String.prototype.includes
includes(s, q) == \E i \in 0 .. Len(s) - Len(q) : SubSeq(s, i + 1, i + Len(q)) = q

\* The code unit of a character, which orders strings.
CharCode(c) == CASE c = " " -> 32 [] c = "A" -> 65 [] c = "B" -> 66
                 [] c = "a" -> 97 [] c = "b" -> 98 [] c = "c" -> 99

\* aValue < bValue on strings.
string_less(x, y) ==
    \E k \in 1 .. Len(y) :
        /\ \A i \in 1 .. k - 1 : i <= Len(x) /\ x[i] = y[i]
        /\ k > Len(x) \/ (k <= Len(x) /\ CharCode(x[k]) < CharCode(y[k]))

filteredGroups(gl) ==
    IF is_blank(gl.searchQuery) THEN gl.groups
    ELSE LET query == toLowerCase(gl.searchQuery)
         IN  SelectSeq(gl.groups,
                 LAMBDA group : \/ includes(toLowerCase(group.name), query)
                                \/ /\ group.description # NoDescription
                                   /\ includes(toLowerCase(group.description), query))

\* The comparator of sorted.sort: -1 when a goes first, 1 when b does.
compare(a, b, sortConfig) ==
    LET less(x, y) == IF sortConfig.field = "name"
                      THEN string_less(toLowerCase(x), toLowerCase(y))
                      ELSE x < y
        aValue == a[sortConfig.field]
        bValue == b[sortConfig.field]
    IN  IF less(aValue, bValue) THEN (IF sortConfig.order = "asc" THEN -1 ELSE 1)
        ELSE IF less(bValue, aValue) THEN (IF sortConfig.order = "asc" THEN 1 ELSE -1)
        ELSE 0

\* Array.prototype.sort is stable: a group goes before the first group the
\* comparator puts it before.
RECURSIVE sort(_, _)
sort(groups, sortConfig) ==
    IF groups = <<>> THEN <<>>
    ELSE LET sorted == sort(SubSeq(groups, 1, Len(groups) - 1), sortConfig)
             group == groups[Len(groups)]
             after == {i \in 1 .. Len(sorted) : compare(group, sorted[i], sortConfig) < 0}
             at == IF after = {} THEN Len(sorted) + 1
                   ELSE CHOOSE i \in after : \A j \in after : i <= j
         IN  SubSeq(sorted, 1, at - 1) \o <<group>> \o SubSeq(sorted, at, Len(sorted))

sortedGroups(gl) == sort(filteredGroups(gl), gl.sortConfig)

\* sortedGroups.slice(startIndex, endIndex)
paginatedGroups(gl) ==
    LET startIndex == (gl.currentPage - 1) * gl.pageSize
        endIndex == startIndex + gl.pageSize
        length == Len(sortedGroups(gl))
    IN  SubSeq(sortedGroups(gl), startIndex + 1, IF endIndex < length THEN endIndex ELSE length)

\* Math.ceil(sortedGroups.length / pageSize)
totalPages(gl) == (Len(sortedGroups(gl)) + gl.pageSize - 1) \div gl.pageSize

handleSearch(gl, value) == [gl EXCEPT !.searchQuery = value, !.currentPage = 1]

handleSort(gl, field) ==
    [gl EXCEPT !.sortConfig = [field |-> field,
                               order |-> IF @.field = field /\ @.order = "asc"
                                         THEN "desc" ELSE "asc"],
               !.currentPage = 1]

handlePageSizeChange(gl, newPageSize) == [gl EXCEPT !.pageSize = newPageSize, !.currentPage = 1]

setCurrentPage(gl, page) == [gl EXCEPT !.currentPage = page]

\* The React state of GroupList.
state(gl) == <<gl.searchQuery, gl.currentPage, gl.pageSize, gl.sortConfig>>

\* GroupList renders: handleSearch is a function of this render, another
\* one than the SearchBar holds, so the SearchBar's effect runs again.
render(gl) == [gl EXCEPT !.search = receive_onSearch(@, 1 - @.onSearch)]

\* React renders again only when the handler has changed the state.
update(gl, new) == IF state(new) = state(gl) THEN new ELSE render(new)

\* GroupList after its first render, the SearchBar's and its effect.  `event`
\* keeps what the last step was.
GroupListMounted(groups, initialPageSize, debounceMs) ==
    [component |-> "GroupList", groups |-> groups, searchQuery |-> <<>>, currentPage |-> 1,
     pageSize |-> initialPageSize, sortConfig |-> [field |-> "name", order |-> "asc"],
     search |-> debounce_effect([value |-> <<>>, onSearch |-> 0, debounceMs |-> debounceMs,
                                 timer |-> NoTimer]),
     event |-> "mount"]

GroupListInit ==
    /\ ContractInit
    /\ \E groups \in GroupsArgs, initialPageSize \in PageSizeOptions,
          debounceMs \in DebounceMsArgs :
           ui = GroupListMounted(groups, initialPageSize, debounceMs)

\* The user types in the search input.
SearchChange ==
    \E v \in SearchInputs :
        /\ v # ui.search.value
        /\ ui' = [ui EXCEPT !.search = setValue(@, v), !.event = "search"]
        /\ UNCHANGED Contract

SearchClear ==
    /\ ui.search.value # <<>>
    /\ ui' = [ui EXCEPT !.search = setValue(@, <<>>), !.event = "search"]
    /\ UNCHANGED Contract

GroupListTick ==
    /\ ui.search.timer.pending
    /\ ui.search.timer.remaining > 0
    /\ ui' = [ui EXCEPT !.search = tick(@), !.event = "tick"]
    /\ UNCHANGED Contract

\* The SearchBar's timer is due: onSearch(value) is handleSearch(value).
SearchTimerFires ==
    /\ ui.search.timer.pending
    /\ ui.search.timer.remaining = 0
    /\ LET gl == [ui EXCEPT !.search = fired(@), !.event = "timer"]
       IN  ui' = update(gl, handleSearch(gl, ui.search.timer.value))
    /\ UNCHANGED Contract

\* Pagination is rendered when there are groups to show; it offers the
\* pages 1 .. totalPages.
PageChange ==
    \E page \in 1 .. totalPages(ui) :
        /\ page # ui.currentPage
        /\ LET gl == [ui EXCEPT !.event = "page"]
           IN  ui' = update(gl, setCurrentPage(gl, page))
        /\ UNCHANGED Contract

PageSizeChange ==
    \E newPageSize \in PageSizeOptions :
        /\ Len(sortedGroups(ui)) > 0
        /\ newPageSize # ui.pageSize
        /\ LET gl == [ui EXCEPT !.event = "page_size"]
           IN  ui' = update(gl, handlePageSizeChange(gl, newPageSize))
        /\ UNCHANGED Contract

Sort ==
    \E field \in SortFields :
        /\ LET gl == [ui EXCEPT !.event = "sort"]
           IN  ui' = update(gl, handleSort(gl, field))
        /\ UNCHANGED Contract

\* The parent renders GroupList with another groups prop.
GroupsChange ==
    \E groups \in GroupsArgs :
        /\ groups # ui.groups
        /\ ui' = render([ui EXCEPT !.groups = groups, !.event = "groups"])
        /\ UNCHANGED Contract

\* What the content area shows when loading is false: the items of the page
\* or the empty state.
content(gl) == IF Len(paginatedGroups(gl)) > 0 THEN "items" ELSE "empty_state"

GroupListNext ==
    \/ GroupsChange
    \/ SearchChange
    \/ SearchClear
    \/ GroupListTick
    \/ SearchTimerFires
    \/ PageChange
    \/ PageSizeChange
    \/ Sort

GroupListSpec == GroupListInit /\ [][GroupListNext]_vars

\* --- C22 ---------------------------------------------------------------
\* C22: in GroupList the current page changes only when the user navigates
\* to a page, or, back to 1, when the search query, the sort configuration
\* or the page size changes; with no such input the list keeps showing the
\* page the user went to, also after the SearchBar's debounce timer fires.
C22_PageKept ==
    [][ui'.currentPage # ui.currentPage /\ ui'.event # "page" =>
          /\ ui'.currentPage = 1
          /\ \/ ui'.searchQuery # ui.searchQuery
             \/ ui'.sortConfig # ui.sortConfig
             \/ ui'.pageSize # ui.pageSize]_vars

\* The page the list shows holds the groups of that page, in order.
C22_ShowsPage ==
    (ui.groups = Groups /\ ui.sortConfig = [field |-> "createdAt", order |-> "desc"]
     /\ is_blank(ui.searchQuery) /\ ui.pageSize = 2 /\ ui.currentPage = 2)
        => paginatedGroups(ui) = <<Groups[3], Groups[4]>>

C22_Original == []C22_ShowsPage /\ C22_PageKept

(***************************************************************************)
(* JoinGroupButton (src/frontend/src/components/index.ts:297-401).         *)
(***************************************************************************)
\* Bound: the joins one mounted button starts.
MaxJoins == 2

WalletStatuses == {"idle", "connected"}

\* activeAddress: null or the address of the account.
NoAddress == "null"

ActiveAddresses == {NoAddress, "GTEST123"}

\* The onSuccess prop: not given, a function that returns, one that throws.
OnSuccessArgs == {"undefined", "returns", "throws"}

\* error: string | null
NoError == "null"

\* What the awaited transaction does: it resolves, or it rejects with an
\* Error or with another value.
TransactionOutcomes ==
    {[settled |-> "resolved", is_error |-> FALSE, message |-> ""],
     [settled |-> "rejected", is_error |-> TRUE, message |-> "Transaction rejected"],
     [settled |-> "rejected", is_error |-> FALSE, message |-> ""]}

isFull(jb) == jb.currentMembers >= jb.maxMembers

isEligible(jb) ==
    ~jb.isMember /\ ~isFull(jb) /\ ~jb.isActive /\ jb.walletStatus = "connected"

\* <Button disabled={..} onClick={..}>text</Button>
Button(text, disabled, onClick) == [text |-> text, disabled |-> disabled, onClick |-> onClick]

\* What the component renders: its buttons, and the error it shows.
\* Mutant of render_button: the wallet is looked at before the group.
render_button_wallet_first(jb) ==
    IF jb.walletStatus # "connected"
    THEN [buttons |-> <<Button("Connect Wallet", TRUE, "none")>>, error |-> NoError]
    ELSE IF jb.isMember
    THEN [buttons |-> <<Button("Already Joined", TRUE, "none")>>, error |-> NoError]
    ELSE IF isFull(jb)
    THEN [buttons |-> <<Button("Group Full", TRUE, "none")>>, error |-> NoError]
    ELSE IF jb.isActive
    THEN [buttons |-> <<Button("Group Active", TRUE, "none")>>, error |-> NoError]
    ELSE IF jb.showConfirm
    THEN [buttons |-> <<Button("Confirm", jb.loading, "handleJoin"),
                        Button("Cancel", jb.loading, "setShowConfirm(false)")>>,
          error |-> jb.error]
    ELSE [buttons |-> <<Button("Join Group", ~isEligible(jb), "setShowConfirm(true)")>>,
          error |-> NoError]

\* Mutant of render_button: Confirm and Cancel stay enabled while loading.
render_button_enabled_while_loading(jb) ==
    IF jb.isMember \/ isFull(jb) \/ jb.isActive \/ jb.walletStatus # "connected"
    THEN [buttons |-> <<Button("Already Joined", TRUE, "none")>>, error |-> NoError]
    ELSE IF jb.showConfirm
    THEN [buttons |-> <<Button("Confirm", FALSE, "handleJoin"),
                        Button("Cancel", FALSE, "setShowConfirm(false)")>>,
          error |-> jb.error]
    ELSE [buttons |-> <<Button("Join Group", ~isEligible(jb), "setShowConfirm(true)")>>,
          error |-> NoError]

render_button(jb) ==
    IF jb.isMember
    THEN [buttons |-> <<Button("Already Joined", TRUE, "none")>>, error |-> NoError]
    ELSE IF isFull(jb)
    THEN [buttons |-> <<Button("Group Full", TRUE, "none")>>, error |-> NoError]
    ELSE IF jb.isActive
    THEN [buttons |-> <<Button("Group Active", TRUE, "none")>>, error |-> NoError]
    ELSE IF jb.walletStatus # "connected"
    THEN [buttons |-> <<Button("Connect Wallet", TRUE, "none")>>, error |-> NoError]
    ELSE IF jb.showConfirm
    THEN [buttons |-> <<Button("Confirm", jb.loading, "handleJoin"),
                        Button("Cancel", jb.loading, "setShowConfirm(false)")>>,
          error |-> jb.error]
    ELSE [buttons |-> <<Button("Join Group", ~isEligible(jb), "setShowConfirm(true)")>>,
          error |-> NoError]

\* The buttons a click reaches: rendered, and not disabled.
Clickable(jb, onClick) ==
    \E i \in DOMAIN render_button(jb).buttons :
        /\ render_button(jb).buttons[i].onClick = onClick
        /\ ~render_button(jb).buttons[i].disabled

\* handleJoin up to its await: without an address it sets the error and
\* returns; otherwise the join is in flight.
handleJoin_begin(jb) ==
    IF jb.activeAddress = NoAddress
    THEN [jb EXCEPT !.error = "Please connect your wallet"]
    ELSE [jb EXCEPT !.loading = TRUE, !.error = NoError, !.in_flight = @ + 1]

\* handleJoin after its await: try, catch, finally.
\* Mutant of handleJoin_end: no finally block.
handleJoin_end_without_finally(jb, outcome) ==
    IF outcome.settled = "resolved"
    THEN [jb EXCEPT !.showConfirm = FALSE, !.loading = FALSE, !.in_flight = @ - 1,
                    !.called = IF jb.onSuccess = "undefined" THEN @ ELSE @ + 1]
    ELSE [jb EXCEPT !.error = "Failed to join group", !.in_flight = @ - 1]

handleJoin_end(jb, outcome) ==
    LET caught(err) == IF err.is_error THEN err.message ELSE "Failed to join group"
        thrown == [is_error |-> TRUE, message |-> "onSuccess failed"]
        try == IF outcome.settled = "rejected"
               THEN [jb EXCEPT !.error = caught(outcome)]
               ELSE IF jb.onSuccess = "undefined"
               THEN [jb EXCEPT !.showConfirm = FALSE]
               ELSE IF jb.onSuccess = "returns"
               THEN [jb EXCEPT !.showConfirm = FALSE, !.called = @ + 1]
               ELSE [jb EXCEPT !.showConfirm = FALSE, !.called = @ + 1,
                               !.error = caught(thrown)]
    IN  [try EXCEPT !.loading = FALSE, !.in_flight = @ - 1]

\* The button after its first render.  Beside the props, the wallet and the
\* React state, `ui` keeps the joins in flight, the joins started, the calls
\* of onSuccess, the last step and how the last join settled.
JoinGroupButtonMounted(props, wallet) ==
    [component |-> "JoinGroupButton",
     maxMembers |-> props.maxMembers, currentMembers |-> props.currentMembers,
     isActive |-> props.isActive, isMember |-> props.isMember, onSuccess |-> props.onSuccess,
     walletStatus |-> wallet.status, activeAddress |-> wallet.activeAddress,
     loading |-> FALSE, error |-> NoError, showConfirm |-> FALSE,
     in_flight |-> 0, joins |-> 0, called |-> 0, event |-> "mount", settled |-> "none"]

GroupProps ==
    [maxMembers : {MaxMembersArg}, currentMembers : {MaxMembersArg - 1, MaxMembersArg},
     isActive : BOOLEAN, isMember : BOOLEAN]

Wallets == [status : WalletStatuses, activeAddress : ActiveAddresses]

JoinGroupButtonInit ==
    /\ ContractInit
    /\ \E group \in GroupProps, onSuccess \in OnSuccessArgs, wallet \in Wallets :
           ui = JoinGroupButtonMounted(
                    [maxMembers |-> group.maxMembers, currentMembers |-> group.currentMembers,
                     isActive |-> group.isActive, isMember |-> group.isMember,
                     onSuccess |-> onSuccess], wallet)

ClickJoinGroup ==
    /\ Clickable(ui, "setShowConfirm(true)")
    /\ ui' = [ui EXCEPT !.showConfirm = TRUE, !.event = "join"]
    /\ UNCHANGED Contract

ClickConfirm ==
    /\ Clickable(ui, "handleJoin")
    /\ ui.joins < MaxJoins
    /\ ui' = [handleJoin_begin(ui) EXCEPT !.event = "confirm", !.joins = @ + 1]
    /\ UNCHANGED Contract

ClickCancel ==
    /\ Clickable(ui, "setShowConfirm(false)")
    /\ ui' = [ui EXCEPT !.showConfirm = FALSE, !.event = "cancel"]
    /\ UNCHANGED Contract

\* The awaited transaction of a join in flight settles.
JoinSettles ==
    \E outcome \in TransactionOutcomes :
        /\ ui.in_flight > 0
        /\ ui' = [handleJoin_end(ui, outcome) EXCEPT !.event = "settled",
                                                    !.settled = outcome.settled]
        /\ UNCHANGED Contract

\* The wallet connects, disconnects or switches account.
WalletChanges ==
    \E wallet \in Wallets :
        /\ <<wallet.status, wallet.activeAddress>> # <<ui.walletStatus, ui.activeAddress>>
        /\ ui' = [ui EXCEPT !.walletStatus = wallet.status,
                            !.activeAddress = wallet.activeAddress, !.event = "wallet"]
        /\ UNCHANGED Contract

\* The parent passes other group props.
GroupChanges ==
    \E group \in GroupProps :
        /\ <<group.currentMembers, group.isActive, group.isMember>>
               # <<ui.currentMembers, ui.isActive, ui.isMember>>
        /\ ui' = [ui EXCEPT !.currentMembers = group.currentMembers,
                            !.isActive = group.isActive, !.isMember = group.isMember,
                            !.event = "props"]
        /\ UNCHANGED Contract

JoinGroupButtonNext ==
    \/ ClickJoinGroup
    \/ ClickConfirm
    \/ ClickCancel
    \/ JoinSettles
    \/ WalletChanges
    \/ GroupChanges

JoinGroupButtonSpec == JoinGroupButtonInit /\ [][JoinGroupButtonNext]_vars

\* --- C23 ---------------------------------------------------------------
\* C23: JoinGroupButton shows one state, by priority: 'Already Joined' if
\* isMember; else 'Group Full' if currentMembers >= maxMembers; else 'Group
\* Active' if isActive; else 'Connect Wallet' if the wallet status is not
\* 'connected'; else the join or confirm controls.  The first four are
\* disabled buttons, and no join starts while one of them is shown.
Blocked == {"Already Joined", "Group Full", "Group Active", "Connect Wallet"}

Shown == {render_button(ui).buttons[i].text : i \in DOMAIN render_button(ui).buttons}

C23_ByPriority ==
    /\ ui.isMember => Shown = {"Already Joined"}
    /\ ~ui.isMember /\ ui.currentMembers >= ui.maxMembers => Shown = {"Group Full"}
    /\ ~ui.isMember /\ ui.currentMembers < ui.maxMembers /\ ui.isActive
           => Shown = {"Group Active"}
    /\ ~ui.isMember /\ ui.currentMembers < ui.maxMembers /\ ~ui.isActive
           /\ ui.walletStatus # "connected" => Shown = {"Connect Wallet"}
    /\ ~ui.isMember /\ ui.currentMembers < ui.maxMembers /\ ~ui.isActive
           /\ ui.walletStatus = "connected"
           => Shown = {"Join Group"} \/ Shown = {"Confirm", "Cancel"}
    /\ \A i \in DOMAIN render_button(ui).buttons :
           render_button(ui).buttons[i].text \in Blocked
               => /\ render_button(ui).buttons[i].disabled
                  /\ render_button(ui).buttons[i].onClick = "none"

C23_NoJoinWhileBlocked ==
    [][Shown \cap Blocked # {} =>
          /\ ui'.joins = ui.joins
          /\ ui'.in_flight <= ui.in_flight
          /\ ui'.showConfirm => ui.showConfirm]_vars

C23_OneStateShown == []C23_ByPriority /\ C23_NoJoinWhileBlocked

\* A member without a connected wallet, in a full and active group, is
\* shown 'Already Joined'.
C23_Witness ==
    /\ ui.component = "JoinGroupButton"
    /\ ui.isMember /\ isFull(ui) /\ ui.isActive /\ ui.walletStatus # "connected"
    /\ Shown = {"Already Joined"}
    /\ ui.event = "props"

\* --- C24 ---------------------------------------------------------------
\* C24: a join starts only by a click on 'Join Group' followed by a click on
\* 'Confirm'; 'Cancel' returns to 'Join Group' and starts nothing.  While a
\* join is in flight Confirm and Cancel are disabled, so at most one join is
\* in flight.
C24_TwoClicks ==
    [][/\ ui'.in_flight > ui.in_flight => ui'.event = "confirm" /\ ui.showConfirm
       /\ ui'.showConfirm /\ ~ui.showConfirm => ui'.event = "join"
       /\ ui'.event = "cancel" => /\ ui'.in_flight = ui.in_flight
                                  /\ ui'.joins = ui.joins
                                  /\ ~ui'.showConfirm
                                  /\ ui'.loading = ui.loading]_vars

C24_DisabledInFlight ==
    /\ ui.in_flight <= 1
    /\ ui.in_flight > 0 =>
           \A i \in DOMAIN render_button(ui).buttons : render_button(ui).buttons[i].disabled

C24_OneJoinInFlight == []C24_DisabledInFlight /\ C24_TwoClicks

\* A join is in flight, and Confirm and Cancel are shown.
C24_Witness ==
    /\ ui.component = "JoinGroupButton"
    /\ ui.in_flight = 1
    /\ ui.event = "confirm"
    /\ Shown = {"Confirm", "Cancel"}

\* --- C25 ---------------------------------------------------------------
\* C25: every join ends with loading false.  When the transaction succeeds
\* the confirmation closes and onSuccess is called exactly once; when it
\* fails, or there is no active address, the error message is set, the
\* confirmation stays open and onSuccess is not called.
C25_JoinEnds ==
    [][/\ ui'.event = "settled" => ~ui'.loading /\ ui'.in_flight = 0
       /\ ui'.event = "settled" /\ ui'.settled = "resolved" =>
              /\ ~ui'.showConfirm
              /\ ui'.called = ui.called + (IF ui.onSuccess = "undefined" THEN 0 ELSE 1)
       /\ ui'.event = "settled" /\ ui'.settled = "rejected" =>
              /\ ui'.error # NoError
              /\ ui'.showConfirm
              /\ ui'.called = ui.called
       /\ ui'.event = "confirm" /\ ui.activeAddress = NoAddress =>
              /\ ui'.error = "Please connect your wallet"
              /\ ui'.showConfirm
              /\ ~ui'.loading
              /\ ui'.in_flight = ui.in_flight
              /\ ui'.called = ui.called]_vars

C25_Idle == ui.in_flight = 0 => ~ui.loading

C25_JoinSettles == []C25_Idle /\ C25_JoinEnds

\* One join has failed and the next has succeeded.
C25_Witness ==
    /\ ui.component = "JoinGroupButton"
    /\ ui.joins = 2
    /\ ui.event = "settled"
    /\ ui.settled = "resolved"
    /\ ui.called = 1
    /\ ui.error = NoError
    /\ ~ui.showConfirm

(***************************************************************************)
(* Tabs (src/frontend/src/components/Tabs.tsx:1-154).                      *)
(***************************************************************************)
\* Bound: the tabs of the tabs prop.  The id of the i-th tab is i.
MaxTabs == 3

\* A prop that is not given.
Undefined == -1

\* The id '' (no tab).
EmptyId == 0

\* The tabs prop: each tab enabled or disabled.
Tab(id, disabled) == [id |-> id, content |-> <<"Content", id>>, disabled |-> disabled]

TabsArgs == {[i \in 1 .. MaxTabs |-> Tab(i, d[i])] : d \in [1 .. MaxTabs -> BOOLEAN]}

\* defaultTab and activeTab: not given, the id of a tab, or an id the tabs
\* do not hold.
TabIdArgs == {Undefined} \cup (1 .. MaxTabs + 1)

Orientations == {"horizontal", "vertical"}

Keys == {"ArrowRight", "ArrowLeft", "ArrowDown", "ArrowUp", "Home", "End", "Enter"}

isControlled(tb) == tb.controlledActiveTab # Undefined

activeTab(tb) == IF isControlled(tb) THEN tb.controlledActiveTab ELSE tb.internalActiveTab

\* tabs.find(tab => tab.id === activeTab)?.content
activeTabContent(tb) ==
    LET found == {i \in DOMAIN tb.tabs : tb.tabs[i].id = activeTab(tb)}
    IN  IF found = {} THEN Undefined ELSE tb.tabs[CHOOSE i \in found : TRUE].content

\* Mutant of handleTabClick: the disabled flag is not looked at.
handleTabClick_ignores_disabled(tb, tabId, disabled) ==
    [tb EXCEPT !.internalActiveTab = IF isControlled(tb) THEN @ ELSE tabId,
               !.called = tabId]

\* `called` is the argument of the call of onChange the step made.
handleTabClick(tb, tabId, disabled) ==
    IF disabled THEN tb
    ELSE [tb EXCEPT !.internalActiveTab = IF isControlled(tb) THEN @ ELSE tabId,
                    !.called = tabId]

\* Mutant of enabledTabs: every tab.
enabledTabs_unfiltered(tabs) == tabs

\* tabs.filter(tab => !tab.disabled)
enabledTabs(tabs) == SelectSeq(tabs, LAMBDA tab : ~tab.disabled)

\* findIndex: from 0, and -1 when there is none.
findIndex(tabs, id) ==
    LET found == {i \in DOMAIN tabs : tabs[i].id = id}
    IN  IF found = {} THEN -1 ELSE (CHOOSE i \in found : \A j \in found : i <= j) - 1

\* The remainder of JavaScript, which takes the sign of the dividend; NaN
\* (division by 0) is no index.
NaN == -1

remainder(a, n) ==
    IF n = 0 THEN NaN ELSE IF a >= 0 THEN a % n ELSE 0 - ((0 - a) % n)

handleKeyDown(tb, key, currentIndex) ==
    LET enabled == enabledTabs(tb.tabs)
        currentEnabledIndex == findIndex(enabled, tb.tabs[currentIndex + 1].id)
        isHorizontal == tb.orientation = "horizontal"
        handled == {IF isHorizontal THEN "ArrowRight" ELSE "ArrowDown",
                    IF isHorizontal THEN "ArrowLeft" ELSE "ArrowUp", "Home", "End"}
        nextIndex ==
            IF key = (IF isHorizontal THEN "ArrowRight" ELSE "ArrowDown")
            THEN remainder(currentEnabledIndex + 1, Len(enabled))
            ELSE IF key = (IF isHorizontal THEN "ArrowLeft" ELSE "ArrowUp")
            THEN remainder(currentEnabledIndex - 1 + Len(enabled), Len(enabled))
            ELSE IF key = "Home" THEN 0
            ELSE Len(enabled) - 1
    IN  IF key \notin handled THEN tb
        ELSE IF nextIndex + 1 \in DOMAIN enabled
        THEN handleTabClick(tb, enabled[nextIndex + 1].id, enabled[nextIndex + 1].disabled)
        ELSE tb

\* Variant: the effect leaves the active tab as it is.
ensure_valid_never(tb) == tb

\* The effect on [tabs, activeTab, isControlled]: an active tab that the
\* tabs do not hold gives way to the first enabled tab.
ensure_valid(tb) ==
    LET enabled == enabledTabs(tb.tabs)
    IN  IF /\ activeTab(tb) # EmptyId
           /\ findIndex(tb.tabs, activeTab(tb)) = -1
           /\ enabled # <<>>
           /\ ~isControlled(tb)
        THEN [tb EXCEPT !.internalActiveTab = enabled[1].id]
        ELSE tb

\* Tabs after its first render and effect.  `event` keeps the last step.
TabsMounted(tabs, defaultTab, controlledActiveTab, orientation) ==
    ensure_valid([component |-> "Tabs", tabs |-> tabs, orientation |-> orientation,
                  controlledActiveTab |-> controlledActiveTab,
                  internalActiveTab |-> IF defaultTab # Undefined THEN defaultTab
                                        ELSE tabs[1].id,
                  called |-> Undefined,
                  event |-> [type |-> "mount", key |-> "", index |-> 0]])

TabsInit ==
    /\ ContractInit
    /\ \E tabs \in TabsArgs, defaultTab \in TabIdArgs, controlledActiveTab \in TabIdArgs,
          orientation \in Orientations :
           ui = TabsMounted(tabs, defaultTab, controlledActiveTab, orientation)

\* A click on the button of the tab at `index` (from 0).
ClickTab ==
    \E index \in 0 .. Len(ui.tabs) - 1 :
        /\ ui' = [handleTabClick([ui EXCEPT !.called = Undefined], ui.tabs[index + 1].id,
                                 ui.tabs[index + 1].disabled)
                    EXCEPT !.event = [type |-> "click", key |-> "", index |-> index]]
        /\ UNCHANGED Contract

\* A key pressed on the button of a tab: a disabled button takes no focus
\* and so no key.
KeyDown ==
    \E key \in Keys, currentIndex \in 0 .. Len(ui.tabs) - 1 :
        /\ ~ui.tabs[currentIndex + 1].disabled
        /\ ui' = [handleKeyDown([ui EXCEPT !.called = Undefined], key, currentIndex)
                    EXCEPT !.event = [type |-> "keydown", key |-> key, index |-> currentIndex]]
        /\ UNCHANGED Contract

\* The parent of a controlled Tabs passes another activeTab.
ParentSetsActiveTab ==
    \E id \in 1 .. MaxTabs :
        /\ isControlled(ui)
        /\ id # ui.controlledActiveTab
        /\ ui' = ensure_valid([ui EXCEPT !.controlledActiveTab = id, !.called = Undefined,
                                         !.event = [type |-> "props", key |-> "", index |-> 0]])
        /\ UNCHANGED Contract

\* The tabs prop after a change: the tabs enabled or disabled anew, and
\* possibly one of them removed.
TabsPropArgs ==
    TabsArgs \cup {SubSeq(tabs, 1, i - 1) \o SubSeq(tabs, i + 1, MaxTabs) :
                       tabs \in TabsArgs, i \in 1 .. MaxTabs}

\* The parent renders Tabs with another tabs prop; the effect runs again.
TabsChange ==
    \E tabs \in TabsPropArgs :
        /\ tabs # ui.tabs
        /\ ui' = ensure_valid([ui EXCEPT !.tabs = tabs, !.called = Undefined,
                                         !.event = [type |-> "tabs", key |-> "", index |-> 0]])
        /\ UNCHANGED Contract

TabsNext ==
    \/ TabsChange
    \/ ClickTab
    \/ KeyDown
    \/ ParentSetsActiveTab

TabsSpec == TabsInit /\ [][TabsNext]_vars

\* --- C26 ---------------------------------------------------------------
\* C26: a click on a disabled tab has no effect: the active tab and the
\* content shown stay as they are and onChange is not called.
C26_DisabledClickIgnored ==
    [][ui'.event.type = "click" /\ ui.tabs[ui'.event.index + 1].disabled =>
          /\ activeTab(ui') = activeTab(ui)
          /\ activeTabContent(ui') = activeTabContent(ui)
          /\ ui'.internalActiveTab = ui.internalActiveTab
          /\ ui'.called = Undefined]_vars

\* The third tab, disabled, has been clicked while the first is active.
C26_Witness ==
    /\ ui.component = "Tabs"
    /\ ui.event = [type |-> "click", key |-> "", index |-> 2]
    /\ Len(ui.tabs) = MaxTabs
    /\ ui.tabs[3].disabled
    /\ ~ui.tabs[1].disabled
    /\ activeTab(ui) = 1
    /\ activeTabContent(ui) = <<"Content", 1>>

\* --- C27 ---------------------------------------------------------------
\* C27: keyboard navigation moves among the enabled tabs only: the next key
\* (ArrowRight, or ArrowDown when vertical) selects the next enabled tab
\* after the current one, wrapping from the last to the first; the previous
\* key (ArrowLeft, or ArrowUp when vertical) the previous enabled tab,
\* wrapping from the first to the last; Home the first enabled tab and End
\* the last; no key activates a disabled tab.
EnabledIndexes(tb) == {i \in DOMAIN tb.tabs : ~tb.tabs[i].disabled}

Least(S) == CHOOSE i \in S : \A j \in S : i <= j

Greatest(S) == CHOOSE i \in S : \A j \in S : i >= j

\* The tab the key pressed on the tab at position `at` is to select.
Target(tb, key, at) ==
    LET enabled == EnabledIndexes(tb)
        horizontal == tb.orientation = "horizontal"
    IN  IF key = (IF horizontal THEN "ArrowRight" ELSE "ArrowDown")
        THEN IF {i \in enabled : i > at} # {} THEN Least({i \in enabled : i > at})
             ELSE Least(enabled)
        ELSE IF key = (IF horizontal THEN "ArrowLeft" ELSE "ArrowUp")
        THEN IF {i \in enabled : i < at} # {} THEN Greatest({i \in enabled : i < at})
             ELSE Greatest(enabled)
        ELSE IF key = "Home" THEN Least(enabled)
        ELSE IF key = "End" THEN Greatest(enabled)
        ELSE 0

C27_KeysSelectEnabled ==
    [][ui'.event.type = "keydown" =>
          LET target == Target(ui, ui'.event.key, ui'.event.index + 1)
          IN  /\ target # 0 =>
                     /\ ~ui.tabs[target].disabled
                     /\ ui'.called = ui.tabs[target].id
                     /\ ~isControlled(ui) => activeTab(ui') = ui.tabs[target].id
              /\ target = 0 => ui'.called = Undefined /\ activeTab(ui') = activeTab(ui)
              /\ activeTab(ui') # activeTab(ui) =>
                     \E i \in EnabledIndexes(ui) : ui.tabs[i].id = activeTab(ui')]_vars

\* With the second tab disabled, ArrowRight on the third tab, the last
\* enabled one, has wrapped to the first.
C27_Witness ==
    /\ ui.component = "Tabs"
    /\ Len(ui.tabs) = MaxTabs
    /\ ui.tabs[2].disabled /\ ~ui.tabs[1].disabled /\ ~ui.tabs[3].disabled
    /\ ui.event = [type |-> "keydown", key |-> "ArrowRight", index |-> 2]
    /\ ui.orientation = "horizontal"
    /\ activeTab(ui) = 1
    /\ ui.called = 1

(***************************************************************************)
(* The cycles of a group: advancing, and the payout trigger.               *)
(***************************************************************************)
\* CycleComplete(group_id, cycle) has been emitted.
Completed(group_id, cycle) ==
    /\ <<group_id, cycle>> \in DOMAIN cycle_complete_log
    /\ cycle_complete_log[<<group_id, cycle>>] > 0

\* The step increments current_cycle of group g.
Increments(g) ==
    /\ g \in StoredGroups(storage) \cap StoredGroups(storage')
    /\ storage'[group_data(g)].current_cycle = storage[group_data(g)].current_cycle + 1

PayoutTrigger ==
    \E group_id \in GroupIdArgs :
        /\ has(storage, group_data(group_id))
        /\ load_status(storage, group_id) = "Active"
        /\ Completed(group_id, storage[group_data(group_id)].current_cycle)
        /\ Commit(advance_cycle(storage, group_id))
        /\ last' = Call("advance_cycle", group_id, "", 0, 0, advance_cycle(storage, group_id))
        /\ UNCHANGED created

PayoutNext ==
    \/ CloseLedger
    \/ CreateGroup
    \/ ActivateGroup
    \/ AddMember
    \/ Contribute
    \/ PayoutTrigger

PayoutSpec ==
    Init /\ [][PayoutNext]_vars /\ WF_vars(Contribute) /\ WF_vars(PayoutTrigger)

IsActive(g) == has(storage, group_data(g)) /\ load_status(storage, g) = "Active"

IsCompleted(g) == has(storage, group_data(g)) /\ load_status(storage, g) = "Completed"

ContributedCycle == last.events[1].cycle

\* The cycles of group g for which CycleComplete has been emitted.
CompletedCycles(g) == {k[2] : k \in {c \in DOMAIN cycle_complete_log : c[1] = g}}

RepeatedAdvance(g) ==
    /\ last.op = "advance_cycle" /\ last.group_id = g
    /\ last'.op = "advance_cycle" /\ last'.group_id = g
    /\ ledger' = ledger
    /\ g \in StoredGroups(storage)
    /\ storage' # storage

C31_RepeatedAdvanceActs ==
    [][\A g \in GroupIdArgs :
           RepeatedAdvance(g) =>
               LET group == storage[group_data(g)]
               IN  IF group.current_cycle + 1 > group.member_count
                   THEN /\ storage'[group_data(g)] = group
                        /\ load_status(storage, g) # "Completed"
                        /\ load_status(storage', g) = "Completed"
                   ELSE /\ storage'[group_data(g)].current_cycle = group.current_cycle + 1
                        /\ load_status(storage', g) = load_status(storage, g)]_vars

\* The step after a call of advance_cycle in an active group whose current
\* cycle is incomplete: a second call is possible there, and it acts.
C31_SecondCallActs ==
    \A g \in StoredGroups(storage) :
        (last.op = "advance_cycle" /\ last.group_id = g /\ load_status(storage, g) # "Completed")
            => advance_cycle(storage, g).storage # storage

AdvanceCalled(g) ==
    /\ last'.op = "advance_cycle" /\ last'.group_id = g
    /\ ledger' = ledger
    /\ (last' # last \/ storage' # storage)

\* What the store holds about the contributions of group g in cycle c: the
\* records of the contributors, the cycle total and the cycle count.
History(st, g, c) ==
    [k \in {x \in DOMAIN st :
               /\ x[1] \in {"ContributionIndividual", "ContributionCycleTotal",
                            "ContributionCycleCount"}
               /\ x[2] = g /\ x[3] = c} |-> st[k]]

\* C32: advance_cycle leaves history untouched: every ContributionRecord,
\* cycle total and cycle count of the cycle being left and of all earlier
\* cycles is the same after the call as before it.
C32_HistoryUntouched ==
    [][\A g \in StoredGroups(storage) :
           AdvanceCalled(g) =>
               \A c \in 0 .. storage[group_data(g)].current_cycle :
                   /\ History(storage', g, c) = History(storage, g, c)
                   /\ CycleTotal(storage', g, c) = CycleTotal(storage, g, c)
                   /\ CycleCount(storage', g, c) = CycleCount(storage, g, c)]_vars

\* advance_cycle has just moved a group to cycle 1, and the record, total
\* and count of cycle 0 are in the store.
C32_Witness ==
    /\ last.op = "advance_cycle"
    /\ has(storage, group_data(last.group_id))
    /\ storage[group_data(last.group_id)].current_cycle = 1
    /\ Contributors(storage, last.group_id, 0) # {}
    /\ CycleTotal(storage, last.group_id, 0) > 0
    /\ CycleCount(storage, last.group_id, 0) > 0

\* --- C33 ---------------------------------------------------------------
\* The step is an accepted call of contribute for group g.
ContributeCalled(g) ==
    /\ last'.op = "contribute" /\ last'.group_id = g
    /\ ledger' = ledger
    /\ storage' # storage

\* C33: contribute never changes current_cycle, status, started_at or
\* member_count of the group, the call that completes the cycle included.
C33_GroupUntouched ==
    [][\A g \in GroupIdArgs :
           ContributeCalled(g) =>
               /\ g \in StoredGroups(storage) \cap StoredGroups(storage')
               /\ storage'[group_data(g)].current_cycle = storage[group_data(g)].current_cycle
               /\ storage'[group_data(g)].started_at = storage[group_data(g)].started_at
               /\ storage'[group_data(g)].member_count = storage[group_data(g)].member_count
               /\ storage'[group_data(g)] = storage[group_data(g)]
               /\ has(storage', group_status(g)) = has(storage, group_status(g))
               /\ load_status(storage', g) = load_status(storage, g)]_vars

\* The contribution just accepted completed the cycle, which is still the
\* current cycle of the group, and the group is still Active.
C33_Witness ==
    /\ last.op = "contribute"
    /\ Len(last.events) = 2
    /\ last.events[2].type = "cycle_complete"
    /\ has(storage, group_data(last.group_id))
    /\ storage[group_data(last.group_id)].current_cycle = last.events[2].cycle
    /\ CycleCount(storage, last.group_id, last.events[2].cycle)
           = storage[group_data(last.group_id)].member_count
    /\ load_status(storage, last.group_id) = "Active"

\* --- C34 ---------------------------------------------------------------
\* C34: an accepted contribute emits exactly one ContributionMade event,
\* with cycle = current_cycle, amount = contribution_amount and cycle total
\* = previous total + amount; when the call completes the cycle, the
\* ContributionMade event precedes the CycleComplete event.
C34_OneContributionMade ==
    [][\A g \in GroupIdArgs :
           ContributeCalled(g) =>
               LET group == storage[group_data(g)]
                   events == last'.events
                   made == {i \in DOMAIN events : events[i].type = "ContributionMade"}
                   complete == {i \in DOMAIN events : events[i].type = "cycle_complete"}
               IN  /\ Cardinality(made) = 1
                   /\ \A i \in made :
                          /\ events[i].group_id = g
                          /\ events[i].contributor = last'.caller
                          /\ events[i].cycle = group.current_cycle
                          /\ events[i].amount = group.contribution_amount
                          /\ events[i].cycle_total
                                 = CycleTotal(storage, g, group.current_cycle)
                                       + group.contribution_amount
                          /\ events[i].cycle_total = CycleTotal(storage', g, group.current_cycle)
                          /\ \A j \in complete : i < j
                   /\ Cardinality(complete) <= 1
                   /\ made \cup complete = DOMAIN events]_vars

\* The second contribution of a cycle was accepted and completed it: the
\* log holds ContributionMade with the total of both, then CycleComplete.
C34_Witness ==
    /\ last.op = "contribute"
    /\ Len(last.events) = 2
    /\ last.events[1].type = "ContributionMade"
    /\ last.events[2].type = "cycle_complete"
    /\ last.events[1].cycle_total = 2 * last.events[1].amount
    /\ last.events[1].amount > 0

(***************************************************************************)
(* The contract over a longer stretch of ledger time: a ledger closes one  *)
(* or several seconds after the previous one, so that the deadline of a    *)
(* cycle can pass while the group is in it.                                *)
(***************************************************************************)
MaxDeadlineSeq == 2

MaxDeadlineCreates == 1

ElapsedArgs == {1, 3}

TimePasses ==
    \E elapsed \in ElapsedArgs :
        /\ ledger.sequence < MaxDeadlineSeq
        /\ ledger' = [sequence |-> ledger.sequence + 1,
                      timestamp |-> ledger.timestamp + elapsed]
        /\ last' = NoCall
        /\ UNCHANGED <<storage, cycle_complete_log, created, ui>>

DeadlineCreateGroup == created < MaxDeadlineCreates /\ CreateGroup

DeadlineNext ==
    \/ TimePasses
    \/ DeadlineCreateGroup
    \/ ActivateGroup
    \/ AddMember
    \/ AdvanceCycle
    \/ Contribute

DeadlineSpec == Init /\ [][DeadlineNext]_vars

\* --- C35 ---------------------------------------------------------------
\* Member m of group g, which is Active, has not contributed in the current
\* cycle of the group.
MayContribute(g, m) ==
    /\ has(storage, group_data(g))
    /\ is_member(storage, g, m)
    /\ load_status(storage, g) = "Active"
    /\ ~already_contributed(storage, g, storage[group_data(g)].current_cycle, m)

DeadlinePassed(g, now) ==
    \E overflow_checks \in BOOLEAN :
        is_cycle_deadline_passed(storage[group_data(g)], now, overflow_checks) = Returned(TRUE)

\* C35: contribute does not enforce the deadline of the cycle: for a member
\* of an Active group who has not contributed in the current cycle, the call
\* succeeds (the transfer succeeding) whether or not
\* is_cycle_deadline_passed(group, now) is true.
C35_DeadlineNotEnforced ==
    \A g \in GroupIdArgs, m \in Addresses :
        MayContribute(g, m) =>
            /\ DeadlinePassed(g, ledger.timestamp) \in BOOLEAN
            /\ contribute(storage, ledger.timestamp, g, m, "transferred").result = "Ok"

\* A contribution was accepted at an instant after the deadline of the
\* cycle it counts for.
C35_Witness ==
    /\ last.op = "contribute"
    /\ has(storage, group_data(last.group_id))
    /\ storage[group_data(last.group_id)].started_at # NotStarted
    /\ storage[group_data(last.group_id)].current_cycle = last.events[1].cycle
    /\ DeadlinePassed(last.group_id, last.events[1].contributed_at)
    /\ last.events[1].contributed_at = ledger.timestamp
    /\ has(storage, contribution_individual(last.group_id, last.events[1].cycle, last.caller))

\* --- C36 ---------------------------------------------------------------
\* contribute would be accepted for member m of group g in this state.
ContributeSucceeds(g, m) ==
    contribute(storage, ledger.timestamp, g, m, "transferred").result = "Ok"

\* C36: the two activity gates agree: in every state in which contribute
\* succeeds for some member of a group, is_group_active returns true for the
\* group (the status is Active and 1 <= member_count <= max_members).
C36_GatesAgree ==
    \A g \in GroupIdArgs :
        (\E m \in Addresses : ContributeSucceeds(g, m)) =>
            /\ is_group_active(storage, g).result = "Ok"
            /\ is_group_active(storage, g).value = TRUE

\* The same while no group id has been issued twice.
C36_GatesAgreeFreshIds == (created <= 1) => C36_GatesAgree

\* contribute succeeds for a member of a group that is_group_active reports
\* as active.
C36_Witness ==
    \E g \in GroupIdArgs :
        /\ \E m \in Addresses : ContributeSucceeds(g, m)
        /\ is_group_active(storage, g).value = TRUE
        /\ created = 1

AdvancesActive(g) ==
    /\ AdvanceCalled(g)
    /\ Increments(g)
    /\ load_status(storage, g) = "Active"
    /\ load_status(storage', g) = "Active"

\* In store st at instant now, member m of group g can contribute once in
\* the current cycle: the call is accepted, and the same call after it fails
\* with AlreadyContributed.
ContributesOnce(st, now, g, m) ==
    LET first == contribute(st, now, g, m, "transferred")
    IN  /\ first.result = "Ok"
        /\ contribute(first.storage, now, g, m, "transferred").result = "AlreadyContributed"

\* C38: contributions are scoped per cycle: after advance_cycle has moved an
\* Active group from cycle N to cycle N + 1, a member who contributed in
\* cycle N can contribute again, once, in cycle N + 1, and the total and the
\* count of cycle N + 1 start from 0.
C38_ScopedPerCycle ==
    [][\A g \in StoredGroups(storage) :
           AdvancesActive(g) =>
               LET next == storage'[group_data(g)].current_cycle
               IN  /\ CycleTotal(storage', g, next) = 0
                   /\ CycleCount(storage', g, next) = 0
                   /\ Contributors(storage', g, next) = {}
                   /\ \A m \in Contributors(storage, g, next - 1) :
                          ContributesOnce(storage', ledger'.timestamp, g, m)]_vars

\* The same while no group id has been issued twice.
C38_ScopedPerCycleFreshIds ==
    [][created <= 1 =>
          \A g \in StoredGroups(storage) :
              AdvancesActive(g) =>
                  LET next == storage'[group_data(g)].current_cycle
                  IN  /\ CycleTotal(storage', g, next) = 0
                      /\ CycleCount(storage', g, next) = 0
                      /\ Contributors(storage', g, next) = {}
                      /\ \A m \in Contributors(storage, g, next - 1) :
                             ContributesOnce(storage', ledger'.timestamp, g, m)]_vars

\* A member who contributed in cycle 0 has contributed again in cycle 1,
\* after advance_cycle, and the total of cycle 1 is that one amount.
C38_Witness ==
    /\ last.op = "contribute"
    /\ created = 1
    /\ last.events[1].cycle = 1
    /\ has(storage, contribution_individual(last.group_id, 0, last.caller))
    /\ has(storage, contribution_individual(last.group_id, 1, last.caller))
    /\ CycleTotal(storage, last.group_id, 1) = last.events[1].amount
    /\ CycleCount(storage, last.group_id, 1) = 1

\* --- C39 ---------------------------------------------------------------
\* C39: in GroupList with pagination, loading being false, the rendered
\* page holds at least one group whenever at least one group matches the
\* search, and the empty state is shown only when no group matches: after
\* any sequence of search, sort, page and page-size changes and of changes
\* of the groups prop, the list shrinking while a later page is selected
\* included.
C39_PageNeverEmpty ==
    /\ Len(filteredGroups(ui)) > 0 => Len(paginatedGroups(ui)) > 0
    /\ content(ui) = "empty_state" <=> Len(filteredGroups(ui)) = 0

\* With the groups prop as it is, the selected page is one of the pages, and
\* the page is empty with groups matching only after the prop has changed.
C39_EmptyOnlyAfterShrink ==
    [][(/\ Len(filteredGroups(ui')) > 0
        /\ Len(paginatedGroups(ui')) = 0
        /\ (Len(paginatedGroups(ui)) > 0 \/ Len(filteredGroups(ui)) = 0))
           => (/\ ui'.event = "groups"
               /\ ui'.groups # ui.groups
               /\ ui'.currentPage = ui.currentPage
               /\ ui'.currentPage > totalPages(ui'))]_vars

\* Page 3 of the five groups is selected and the groups prop has become the
\* first two groups: no item is shown although both match.
C39_Witness ==
    /\ ui.event = "groups"
    /\ ui.groups = SubSeq(Groups, 1, 2)
    /\ ui.currentPage = 3
    /\ Len(filteredGroups(ui)) = 2
    /\ content(ui) = "empty_state"

\* --- C40 ---------------------------------------------------------------
\* Tabs is uncontrolled and its tabs hold an enabled tab.
UncontrolledWithEnabledTab == ~isControlled(ui) /\ enabledTabs(ui.tabs) # <<>>

C40_Exists ==
    UncontrolledWithEnabledTab => findIndex(ui.tabs, activeTab(ui)) # -1

C40_ChangeSelectsEnabled ==
    (/\ ui'.event.type \in {"click", "keydown"}
     /\ ~isControlled(ui)
     /\ activeTab(ui') # activeTab(ui))
        => \E i \in DOMAIN ui'.tabs :
               ui'.tabs[i].id = activeTab(ui') /\ ~ui'.tabs[i].disabled

C40_DisabledActive ==
    /\ ui.component = "Tabs"
    /\ ui.event.type = "tabs"
    /\ UncontrolledWithEnabledTab
    /\ \E i \in DOMAIN ui.tabs : ui.tabs[i].id = activeTab(ui) /\ ui.tabs[i].disabled

====
